---- MODULE Spec2Model ----
(***************************************************************************)
(* Model of the meta-hybrid mount core: the Granary snapshot store and the *)
(* Ratoon boot watchdog (src/src/core/granary.rs), and the daemon run with *)
(* its four-phase executor (src/src/main.rs, src/src/core/executor.rs).    *)
(***************************************************************************)
EXTENDS Integers, Sequences, FiniteSets, TLC

(***************************************************************************)
(* Bounds of the model.                                                    *)
(***************************************************************************)
\* wall-clock instants are sampled at whole days: 0 .. MaxDay days
MaxDay == 2
\* largest granary.max_backups a configuration carries
MaxBackupsBound == 2
\* largest granary.retention_days a configuration carries
MaxRetentionDays == 1
\* most modules in the module directory
MaxModules == 2
\* engage_ratoon_protocol is called while the counter on disk is below this
MaxCount == 3

\* the relative paths of the files a module ships in one partition
\* directory are numbered 1..MaxPaths, in the byte order of their names
MaxPaths == 2

\* a directory node of the magic-mount tree has at most this many children
MaxChildren == 2
\* threads of the process that call into try_umount.rs
MaxThreads == 2
\* distinct non-empty paths handed to send_unmountable and ksu_nuke_sysfs
MaxTargets == 2
\* calls into try_umount.rs the process makes in all
MaxCalls == 4
\* engage calls in a row counted from one that found no counter file
MaxStreak == 4

(***************************************************************************)
(* Program constants.                                                      *)
(***************************************************************************)
\* seconds per day, the factor of retention_days in prune_silos
DaySecs == 86400
\* the Ratoon trigger: count >= 3
RatoonThreshold == 3
\* u8 range of the boot counter
U8Max == 255
\* the NUL byte, which CString::new rejects
NUL == 0
\* a byte that is no UTF-8, and U+FFFD which to_string_lossy puts in its place
INVALID == 255
REPLACEMENT == 65533
\* the name ".replace" among the entry names, which are numbers
REPLACE_DIR_FILE_NAME == 3

(***************************************************************************)
(* Option values: None is <<>>, Some(x) is <<x>>.                          *)
(***************************************************************************)
None == <<>>
Some(x) == <<x>>
IsSome(o) == Len(o) = 1
Unwrap(o) == o[1]

(***************************************************************************)
(* Text of the counter file: a sequence of characters.  0..9 are the       *)
(* decimal digits, WS is a whitespace character, JUNK any other character. *)
(***************************************************************************)
WS == 10
JUNK == 11
IsDigit(ch) == ch \in 0..9

\* str::trim: drop leading and trailing whitespace
RECURSIVE TrimStart(_)
TrimStart(s) ==
    IF s # <<>> /\ Head(s) = WS THEN TrimStart(Tail(s)) ELSE s

RECURSIVE TrimEnd(_)
TrimEnd(s) ==
    IF s # <<>> /\ s[Len(s)] = WS THEN TrimEnd(SubSeq(s, 1, Len(s) - 1)) ELSE s

Trim(s) == TrimEnd(TrimStart(s))

\* the value of a digit string, -1 when a character is no digit
RECURSIVE DigitsValue(_, _)
DigitsValue(s, acc) ==
    IF s = <<>> THEN acc
    ELSE IF ~IsDigit(Head(s)) THEN -1
    ELSE IF acc * 10 + Head(s) > U8Max THEN -1
    ELSE DigitsValue(Tail(s), acc * 10 + Head(s))

\* str::parse::<u8>: None on empty input, a non-digit, or a value above 255
ParseU8(s) ==
    IF s = <<>> \/ DigitsValue(s, 0) = -1 THEN None ELSE Some(DigitsValue(s, 0))

\* write!(file, "{}", count): the decimal digits of count
RECURSIVE FormatU8(_)
FormatU8(n) ==
    IF n < 10 THEN <<n>> ELSE FormatU8(n \div 10) \o <<n % 10>>

(***************************************************************************)
(* Configuration values and the texts of the config and state files.       *)
(***************************************************************************)
\* the fields of Config that the Granary reads
Configs == [max_backups : 0..MaxBackupsBound, retention_days : 0..MaxRetentionDays]

\* a config.toml text: the configuration it encodes, and whether it carries
\* user comments (which a re-serialisation of the struct loses)
ConfigTexts == [cfg : Configs, comments : BOOLEAN]

\* toml::to_string(&config)
ToToml(c) == [cfg |-> c, comments |-> FALSE]

\* the texts the state file can hold
StateTexts == {"state_a", "state_b"}

\* the label and reason given to create_silo
Labels == {"auto"}

\* the instants SystemTime::now() can return, as seconds since the epoch
TimePoints == {d * DaySecs : d \in 0..MaxDay}

(***************************************************************************)
(* Silos and the JSON text of a silo file.                                 *)
(***************************************************************************)
\* format!("silo_{}", now)
SiloId(now) == <<"silo_", now>>

\* GRANARY_DIR.join(format!("{}.json", id)): files are keyed by the id's number
SiloFile(id) == id[2]

MkSilo(now, label, config, raw_config, raw_state) ==
    [id |-> SiloId(now), timestamp |-> now, label |-> label,
     config_snapshot |-> config, raw_config |-> raw_config, raw_state |-> raw_state]

\* serde_json::to_string_pretty(&silo)
ToJson(silo) == [valid |-> TRUE, json |-> silo]

\* a silo file whose text no longer parses (truncated or damaged)
Damaged(text) == [valid |-> FALSE, json |-> text.json]

\* serde_json::from_str::<Silo>(&content)
FromJson(text) == IF text.valid THEN Some(text.json) ELSE None

VARIABLES
    counter_file,     \* RATOON_COUNTER_FILE: None, or Some(text)
    granary,          \* GRANARY_DIR: file number -> None, or Some(json text)
    config_file,      \* CONFIG_PATH: None, or Some(config text)
    state_file,       \* STATE_PATH: None, or Some(state text)
    last              \* the last operation performed, what it returned and
                      \* what it wrote to the rescue notice and module markers

gvars == <<counter_file, granary, config_file, state_file, last>>

\* the daemon run (main.rs run) and the locals of executor::execute
VARIABLES
    pc,           \* position of run(): the step it executes next
    daemon_config, \* the Config of the run: its extra partition names
    modules,      \* the module directory: a set of [id, rules, parts, markers]
    host,         \* what /<partition> is on the host, per partition
    module_list,  \* the Vec<Module> inventory::scan returned
    storage,      \* ids of the modules with a copy under the storage root
    plan,         \* the MountPlan planner::generate returned
    exec,         \* the locals of executor::execute
    env,          \* what the kernel and the filesystem answered to execute
    exec_result,  \* the ExecutionResult, once execute has returned Ok
    fatal         \* the step whose error run() returned, if any

rvars == <<pc, daemon_config, modules, host, module_list, storage, plan, exec,
           env, exec_result, fatal>>

\* a call of one function of the core on its own: the function and its
\* arguments, and what it returned
VARIABLES call, ret

fvars == <<call, ret>>

\* the threads of the process that call into try_umount.rs, and its statics
VARIABLES
    thread,         \* per thread: the call it is in and its position in it
    DRIVER_FD,      \* static DRIVER_FD: OnceLock<RawFd>
    SENT_UNMOUNTS,  \* static SENT_UNMOUNTS: the set and the holder of its lock
    ioctls          \* the calls made to the driver so far

tvars == <<thread, DRIVER_FD, SENT_UNMOUNTS, ioctls>>

vars == <<gvars, rvars, fvars, tvars>>

(***************************************************************************)
(* Granary: listing, pruning, creating, deleting and restoring silos.      *)
(***************************************************************************)
\* the files of the Granary directory
Files(g) == {f \in DOMAIN g : IsSome(g[f])}

\* the silos that list_silos parses; files that do not parse are skipped
ParsedSilos(g) ==
    {Unwrap(FromJson(Unwrap(g[f]))) : f \in {h \in Files(g) : Unwrap(g[h]).valid}}

\* silos.sort_by(|a, b| b.timestamp.cmp(&a.timestamp))
RECURSIVE SortByTimestampDesc(_)
SortByTimestampDesc(S) ==
    IF S = {} THEN <<>>
    ELSE LET m == CHOOSE x \in S : \A y \in S : y.timestamp <= x.timestamp
         IN  <<m>> \o SortByTimestampDesc(S \ {m})

list_silos(g) == SortByTimestampDesc(ParsedSilos(g))

\* now.saturating_sub(retention_days * 86400), or 0 with no retention
ExpirationTs(retention_days, now) ==
    IF retention_days > 0
    THEN (IF now - retention_days * DaySecs < 0 THEN 0
          ELSE now - retention_days * DaySecs)
    ELSE 0

\* faulty variant: the count limit is off by one
ShouldDeleteOffByOne(i, silo, max_count, retention_days, expiration_ts) ==
    \/ max_count > 0 /\ i > max_count
    \/ retention_days > 0 /\ silo.timestamp < expiration_ts /\ i > 0

\* faulty variant: the age limit does not spare the newest silo
ShouldDeleteNoNewestGuard(i, silo, max_count, retention_days, expiration_ts) ==
    \/ max_count > 0 /\ i >= max_count
    \/ retention_days > 0 /\ silo.timestamp < expiration_ts

\* should_delete for the silo at 0-based index i of the sorted list
ShouldDelete(i, silo, max_count, retention_days, expiration_ts) ==
    \/ max_count > 0 /\ i >= max_count
    \/ retention_days > 0 /\ silo.timestamp < expiration_ts /\ i > 0

\* prune_silos: the Granary after the prune run at instant now
prune_silos(g, config, now) ==
    LET silos == list_silos(g)
        expiration_ts == ExpirationTs(config.retention_days, now)
        doomed == {SiloFile(silos[k].id) : k \in
                    {j \in 1..Len(silos) :
                        ShouldDelete(j - 1, silos[j], config.max_backups,
                                     config.retention_days, expiration_ts)}}
    IN  [f \in DOMAIN g |-> IF f \in doomed THEN None ELSE g[f]]

\* faulty variant: an existing silo file of the same second is extended, not written
WriteSiloKeepExisting(g, silo) ==
    IF IsSome(g[SiloFile(silo.id)]) THEN g
    ELSE [g EXCEPT ![SiloFile(silo.id)] = Some(ToJson(silo))]

\* fs::write(&file_path, json): creates or truncates the silo file
WriteSilo(g, silo) == [g EXCEPT ![SiloFile(silo.id)] = Some(ToJson(silo))]

\* what restore_silo writes to CONFIG_PATH
RestoredConfig(silo) ==
    IF IsSome(silo.raw_config) THEN Unwrap(silo.raw_config)
    ELSE ToToml(silo.config_snapshot)

\* faulty variant: the state file is written also when the silo holds no raw state
RestoredStateAlways(silo, current) == silo.raw_state

\* what restore_silo leaves in STATE_PATH
RestoredState(silo, current) ==
    IF IsSome(silo.raw_state) THEN silo.raw_state ELSE current

\* restore_silo succeeds when the file exists and parses
CanRestore(g, id) ==
    /\ SiloFile(id) \in DOMAIN g
    /\ IsSome(g[SiloFile(id)])
    /\ IsSome(FromJson(Unwrap(g[SiloFile(id)])))

\* faulty variant: restore the oldest silo
LatestSiloOldest(g) ==
    LET silos == list_silos(g)
    IN  IF silos = <<>> THEN None ELSE Some(silos[Len(silos)])

\* silos.first() of restore_latest_silo
LatestSilo(g) ==
    LET silos == list_silos(g)
    IN  IF silos = <<>> THEN None ELSE Some(Head(silos))

\* count += 1 on a u8: past 255 the build either panics (-1) or wraps to 0
IncrementU8(n) == IF n < U8Max THEN {n + 1} ELSE {-1, 0}

\* the count engage_ratoon_protocol reads: 0 when the file is absent or its
\* trimmed text is no u8
ReadCounter(file) ==
    IF IsSome(file) /\ IsSome(ParseU8(Trim(Unwrap(file))))
    THEN Unwrap(ParseU8(Trim(Unwrap(file))))
    ELSE 0

\* the record of the last operation: its name, whether it returned Ok, the
\* post-increment count (engage), the silo it created, deleted or restored,
\* the configuration it ran with and the expiration_ts its prune computed
\* (create_silo), the silo id it wrote to RATOON_RESCUE_NOTICE, the module
\* directories in which it created a disable marker, how many engage calls
\* have now run back to back since one found the counter file absent, and
\* the timestamp of silos[0] in the listing its prune worked on (create_silo)
Did(op, ok, count, silo, config, expiration_ts, notice, disabled, streak, newest) ==
    [op |-> op, ok |-> ok, count |-> count, silo |-> silo, config |-> config,
     expiration_ts |-> expiration_ts, notice |-> notice, disabled |-> disabled,
     streak |-> streak, newest |-> newest]

Plain(op, ok, silo) == Did(op, ok, 0, silo, None, 0, None, {}, 0, None)

\* the streak an engage call reaches
Streak ==
    IF counter_file = None THEN 1
    ELSE IF last.op = "engage" /\ last.streak > 0 THEN last.streak + 1
    ELSE 0

NoOp == Plain("init", TRUE, None)

(***************************************************************************)
(* engage_ratoon_protocol                                                  *)
(***************************************************************************)
\* the directories under MODULES_DIR
ModuleEntries == 1..MaxModules

\* disable_all_modules: whether it returns Ok and the directories that hold
\* a disable marker when it returns.  A stray entry of MODULES_DIR that is
\* no directory makes File::create fail, after the directories read_dir
\* listed before it have been marked.
disable_all_modules(dirs, stray) ==
    IF stray THEN {[ok |-> FALSE, marked |-> S] : S \in SUBSET dirs}
    ELSE {[ok |-> TRUE, marked |-> dirs]}

\* the body of engage_ratoon_protocol, whatever the counter file holds
Engage ==
    /\ \E count \in IncrementU8(ReadCounter(counter_file)) :
        IF count = -1
        THEN \* the increment panics: nothing is written
             /\ last' = Plain("engage_panic", FALSE, None)
             /\ UNCHANGED <<counter_file, granary, config_file, state_file>>
        ELSE IF count < RatoonThreshold
        THEN /\ counter_file' = Some(FormatU8(count))
             /\ last' = Did("engage", TRUE, count, None, None, 0, None, {},
                            Streak, None)
             /\ UNCHANGED <<granary, config_file, state_file>>
        ELSE LET latest == LatestSilo(granary)
             IN  IF IsSome(latest) /\ CanRestore(granary, Unwrap(latest).id)
                 THEN \* restore_latest_silo is Ok(silo_id)
                      /\ config_file' = Some(RestoredConfig(Unwrap(latest)))
                      /\ state_file' = RestoredState(Unwrap(latest), state_file)
                      /\ counter_file' = None
                      /\ last' = Did("engage", TRUE, count,
                                     Some(Unwrap(latest).id), None, 0,
                                     Some(Unwrap(latest).id), {}, Streak,
                                     None)
                      /\ UNCHANGED granary
                 ELSE \* restore failed: disable_all_modules()?, and only
                      \* then the counter is reset
                      \E stray \in BOOLEAN :
                        \E done \in disable_all_modules(ModuleEntries, stray) :
                          /\ counter_file' = IF done.ok THEN None
                                             ELSE Some(FormatU8(count))
                          /\ last' = Did("engage", done.ok, count, None, None,
                                         0, None, done.marked, Streak, None)
                          /\ UNCHANGED <<granary, config_file, state_file>>
    /\ UNCHANGED <<rvars, fvars, tvars>>

\* engage_ratoon_protocol, called while the counter on disk is below MaxCount
engage_ratoon_protocol ==
    /\ ReadCounter(counter_file) < MaxCount
    /\ Engage

(***************************************************************************)
(* disengage_ratoon_protocol                                               *)
(***************************************************************************)
disengage_ratoon_protocol ==
    /\ counter_file' = None
    /\ last' = Plain("disengage", TRUE, None)
    /\ UNCHANGED <<granary, config_file, state_file>>
    /\ UNCHANGED <<rvars, fvars, tvars>>

(***************************************************************************)
(* create_silo: write the silo of this second, then prune.  The clock is   *)
(* read once for the id and once more by the prune.                        *)
(***************************************************************************)
CreateSilo(configs) ==
    /\ \E config \in configs, label \in Labels, now \in TimePoints :
      \E prune_now \in {t \in TimePoints : t >= now} :
        LET silo == MkSilo(now, label, config, config_file, state_file)
        IN  /\ granary' = prune_silos(WriteSilo(granary, silo), config, prune_now)
            /\ last' = Did("create_silo", TRUE, 0, Some(silo.id), Some(config),
                           ExpirationTs(config.retention_days, prune_now),
                           None, {}, 0,
                           Some(list_silos(WriteSilo(granary, silo))[1]
                                    .timestamp))
            /\ UNCHANGED <<counter_file, config_file, state_file>>
    /\ UNCHANGED <<rvars, fvars, tvars>>

(***************************************************************************)
(* delete_silo and restore_silo, for any silo id                           *)
(***************************************************************************)
delete_silo ==
    /\ \E t \in TimePoints :
        /\ IF IsSome(granary[t])
           THEN /\ granary' = [granary EXCEPT ![t] = None]
                /\ last' = Plain("delete_silo", TRUE, Some(SiloId(t)))
           ELSE /\ granary' = granary
                /\ last' = Plain("delete_silo", FALSE, Some(SiloId(t)))
        /\ UNCHANGED <<counter_file, config_file, state_file>>
    /\ UNCHANGED <<rvars, fvars, tvars>>

restore_silo ==
    /\ \E t \in TimePoints :
        /\ IF CanRestore(granary, SiloId(t))
           THEN LET silo == Unwrap(FromJson(Unwrap(granary[t])))
                IN  /\ config_file' = Some(RestoredConfig(silo))
                    /\ state_file' = RestoredState(silo, state_file)
                    /\ last' = Plain("restore_silo", TRUE, Some(SiloId(t)))
           ELSE /\ UNCHANGED <<config_file, state_file>>
                /\ last' = Plain("restore_silo", FALSE, Some(SiloId(t)))
        /\ UNCHANGED <<counter_file, granary>>
    /\ UNCHANGED <<rvars, fvars, tvars>>

(***************************************************************************)
(* Writers of the config and state files outside the Granary: the user or  *)
(* the web UI edits config.toml, a completed run saves state.json.         *)
(***************************************************************************)
\* the config text a user writes: it carries comments
UserConfigTexts == {[cfg |-> [max_backups |-> 0, retention_days |-> 0],
                     comments |-> TRUE]}

write_config ==
    /\ \E t \in UserConfigTexts : config_file' = Some(t)
    /\ config_file' # config_file
    /\ last' = Plain("write_config", TRUE, None)
    /\ UNCHANGED <<counter_file, granary, state_file>>
    /\ UNCHANGED <<rvars, fvars, tvars>>

write_state ==
    /\ \E t \in StateTexts : state_file' = Some(t)
    /\ state_file' # state_file
    /\ last' = Plain("write_state", TRUE, None)
    /\ UNCHANGED <<counter_file, granary, config_file>>
    /\ UNCHANGED <<rvars, fvars, tvars>>

(***************************************************************************)
(* The daemon run (main.rs run): the module directory and the host's       *)
(* partitions on disk, the run's position, and the values it computes.     *)
(***************************************************************************)
\* the elements of a sequence
Range(s) == {s[i] : i \in DOMAIN s}

\* the orderings of a finite set
Perms(S) == {s \in [1..Cardinality(S) -> S] : Range(s) = S}

\* two of defs::BUILTIN_PARTITIONS, in the order of that list
PartitionOrder == <<"system", "oem">>
Partitions == Range(PartitionOrder)

\* the names a user can add with config.partitions; "data" is the top
\* directory that holds the storage root and the module directory
ExtraPartitions == {"data"}
AllPartitionOrder == PartitionOrder \o <<"data">>
AllPartitions == Range(AllPartitionOrder)

\* inventory::MountMode
MountModes == {"Overlay", "Magic", "Ignore"}
\* the default mode that selects the direct-injection strategy
HymoMode == "Hymo"

(***************************************************************************)
(* Paths are sequences of components below "/".                            *)
(***************************************************************************)
\* storage_handle.mount_point and config.moduledir
StorageRoot == <<"data", "mnt">>
ModuleDir == <<"data", "modules">>

\* Path::parent and Path::file_name
Parent(path) ==
    IF Len(path) > 0 THEN Some(SubSeq(path, 1, Len(path) - 1)) ELSE None
FileName(path) == IF Len(path) > 0 THEN Some(path[Len(path)]) ELSE None

extract_id(path) ==
    IF IsSome(Parent(path)) THEN FileName(Unwrap(Parent(path))) ELSE None

extract_module_root(partition_path) == Parent(partition_path)

\* Ord of the module roots the model builds: the base directory first
\* ("mnt" < "modules" byte-wise), then the id
PathLess(a, b) ==
    LET n == Len(StorageRoot)
    IN  \/ SubSeq(a, 1, n) = StorageRoot /\ SubSeq(b, 1, n) = ModuleDir
        \/ SubSeq(a, 1, n) = SubSeq(b, 1, n) /\ a[n + 1] < b[n + 1]

\* Vec::sort followed by Vec::dedup, on module roots
SortDedup(queue) ==
    CHOOSE s \in Perms(Range(queue)) :
        \A i, j \in DOMAIN s : i < j => PathLess(s[i], s[j])

\* a Vec of ids, sorted, from a set of ids
SortIds(ids) ==
    CHOOSE s \in Perms(ids) : \A i, j \in DOMAIN s : i < j => s[i] < s[j]

\* Path::exists of /<partition>: follows a symlink
TargetExists(h, partition) ==
    partition \in DOMAIN h /\ h[partition] \in {"dir", "symlink"}

(***************************************************************************)
(* Inventory, sync and planner                                             *)
(***************************************************************************)
\* ModuleRules::get_mode; paths is a set of <<relative_path, mode>> entries
get_mode(rules, relative_path) ==
    IF \E e \in rules.paths : e[1] = relative_path
    THEN (CHOOSE e \in rules.paths : e[1] = relative_path)[2]
    ELSE rules.default_mode

\* ModuleRules::default()
DefaultRules == [default_mode |-> "Overlay", paths |-> {}]

\* the relative paths a rule file names, and the maps it can hold: sets of
\* <<relative_path, mode>> entries with one entry per key
RuleKeys == Partitions
PathMaps ==
    {paths \in SUBSET (RuleKeys \X MountModes) :
        \A a, b \in paths : a[1] = b[1] => a = b}

\* the text of a rule file: JSON that may leave out either field, or text
\* that serde_json rejects (or that cannot be read)
UnparsableRules == [valid |-> FALSE, default_mode |-> None, paths |-> None]
RuleTexts ==
    [valid : {TRUE},
     default_mode : {None} \cup {Some(mode) : mode \in MountModes},
     paths : {None} \cup {Some(paths) : paths \in PathMaps}]
        \cup {UnparsableRules}

\* a rule file on disk: absent, or its text
RuleFiles == {None} \cup {Some(text) : text \in RuleTexts}

\* serde_json::from_str::<ModuleRules>: a field left out takes its default
ParseRules(text) ==
    IF text.valid
    THEN Some([default_mode |-> IF IsSome(text.default_mode)
                                THEN Unwrap(text.default_mode)
                                ELSE DefaultRules.default_mode,
               paths |-> IF IsSome(text.paths) THEN Unwrap(text.paths)
                         ELSE DefaultRules.paths])
    ELSE None

\* whether a rule file exists and parses
Parses(file) == IsSome(file) /\ IsSome(ParseRules(Unwrap(file)))

\* faulty variant: an entry already in the map is kept
ExtendKeepingOld(paths, other) ==
    paths \cup {u \in other : \A e \in paths : e[1] # u[1]}

\* HashMap::extend: the entries of other replace those with the same key
Extend(paths, other) ==
    {e \in paths : \A u \in other : u[1] # e[1]} \cup other

\* ModuleRules::load, given the in-module rule file and the user's
load(internal_config, user_config) ==
    LET rules == IF Parses(internal_config)
                 THEN Unwrap(ParseRules(Unwrap(internal_config)))
                 ELSE DefaultRules
    IN  IF Parses(user_config)
        THEN LET user_rules == Unwrap(ParseRules(Unwrap(user_config)))
             IN  [default_mode |-> user_rules.default_mode,
                  paths |-> Extend(rules.paths, user_rules.paths)]
        ELSE rules

\* the marker files that exclude a module directory from the scan
Markers == {"disable", "remove", "skip_mount"}

\* the directory names the scan ignores ("meta-hybrid", "lost+found", ".git",
\* ".idea", ".vscode"), which the model numbers 0
ReservedIds == {0}

\* faulty variant: the marker files are not looked at
ScannedIgnoringMarkers(entry) == entry.id \notin ReservedIds

\* inventory::scan, the filter: whether a directory becomes a Module
Scanned(entry) ==
    /\ entry.id \notin ReservedIds
    /\ entry.markers \cap Markers = {}

\* inventory::scan: one Module per module directory that passes the filter,
\* sorted by id descending
scan(disk) ==
    LET ids == {m.id : m \in {m \in disk : Scanned(m)}}
        order == CHOOSE s \in Perms(ids) :
                     \A i, j \in DOMAIN s : i < j => s[i] > s[j]
    IN  [i \in DOMAIN order |->
            LET m == CHOOSE m \in disk : m.id = order[i]
            IN  [id |-> m.id, source_path |-> Append(ModuleDir, m.id),
                 rules |-> m.rules]]

\* perform_sync: every module whose default mode is not Magic and that has
\* content is copied under the storage root
Synced(list, disk) ==
    {list[i].id : i \in {i \in DOMAIN list :
        /\ list[i].rules.default_mode # "Magic"
        /\ \E m \in disk : m.id = list[i].id /\ m.parts \cap Partitions # {}}}

\* the populated directories under a module's content path that are
\* target partitions
PopulatedDirs(disk, id, target_partitions) ==
    (CHOOSE m \in disk : m.id = id).parts \cap target_partitions

\* the partitions for which a module emits a HymoOperation
HymoDirs(module, dirs) ==
    IF module.rules.default_mode = HymoMode THEN dirs ELSE {}

\* the per-module closure of planner::generate
Contribution(module, disk, stored, target_partitions) ==
    LET content_path == IF module.id \in stored
                        THEN Append(StorageRoot, module.id)
                        ELSE module.source_path
        populated == PopulatedDirs(disk, module.id, target_partitions)
        dirs == populated \ HymoDirs(module, populated)
    IN  [id |-> module.id,
         overlays |-> {<<d, Append(content_path, d)>> :
                        d \in {d \in dirs :
                                 get_mode(module.rules, d) = "Overlay"}},
         magic_path |-> IF \E d \in dirs : get_mode(module.rules, d) = "Magic"
                        THEN Some(content_path) ELSE None,
         hymos |-> {<<d, Append(content_path, d)>> :
                        d \in HymoDirs(module, populated)}]

\* overlay_groups[part]: the layers pushed for a partition, in module order
Layers(contribs, part) ==
    LET has(c) == \E o \in c.overlays : o[1] = part
        sel == SelectSeq(contribs, has)
    IN  [i \in DOMAIN sel |-> (CHOOSE o \in sel[i].overlays : o[1] = part)[2]]

\* the HymoOperations of one module, in partition order
HymoOpsOf(c) ==
    LET has(part) == \E o \in c.hymos : o[1] = part
        sel == SelectSeq(AllPartitionOrder, has)
    IN  [i \in DOMAIN sel |->
            [module_id |-> c.id,
             source |-> (CHOOSE o \in c.hymos : o[1] = sel[i])[2],
             target |-> <<sel[i]>>]]

RECURSIVE HymoOps(_)
HymoOps(contribs) ==
    IF contribs = <<>> THEN <<>>
    ELSE HymoOpsOf(Head(contribs)) \o HymoOps(Tail(contribs))

\* MountPlan::default()
EmptyPlan ==
    [overlay_ops |-> <<>>, magic_module_paths |-> <<>>,
     overlay_module_ids |-> <<>>, magic_module_ids |-> <<>>,
     hymo_ops |-> <<>>, hymo_module_ids |-> <<>>]

\* planner::generate: the plans it can return.  The overlay ops come out in
\* the iteration order of a HashMap and the magic paths in that of a
\* HashSet, so every order is possible.
generate(cfg, h, list, disk, stored) ==
    LET target_partitions == Partitions \cup cfg.partitions
        all == [i \in DOMAIN list |->
                   Contribution(list[i], disk, stored, target_partitions)]
        acts(c) == c.overlays # {} \/ IsSome(c.magic_path) \/ c.hymos # {}
        contribs == SelectSeq(all, acts)
        cs == Range(contribs)
        magic_paths == {Unwrap(c.magic_path) : c \in {c \in cs : IsSome(c.magic_path)}}
        magic_ids == {c.id : c \in {c \in cs : IsSome(c.magic_path)}}
        overlay_ids == {c.id : c \in {c \in cs : c.overlays # {}}}
        hymo_ids == {c.id : c \in {c \in cs : c.hymos # {}}}
        kept == {part \in target_partitions :
                    Layers(contribs, part) # <<>> /\ h[part] = "dir"}
        ops == {[partition_name |-> part, target |-> <<part>>,
                 lowerdirs |-> Layers(contribs, part)] : part \in kept}
    IN  {[overlay_ops |-> o, magic_module_paths |-> mp,
          overlay_module_ids |-> SortIds(overlay_ids),
          magic_module_ids |-> SortIds(magic_ids),
          hymo_ops |-> HymoOps(contribs),
          hymo_module_ids |-> SortIds(hymo_ids)] :
            o \in Perms(ops), mp \in Perms(magic_paths)}

(***************************************************************************)
(* MountPlan::analyze_conflicts                                            *)
(***************************************************************************)
\* the relative paths below a lowerdir
RelPaths == 1..MaxPaths

\* what a lowerdir holds at a relative path: nothing, a regular file, a
\* symlink, or a directory
EntryKinds == {"absent", "file", "symlink", "dir"}

\* the partition names in byte order, and str::cmp on them
NameOrder == <<"data", "oem", "system">>
NameLess(a, b) ==
    \E i, j \in DOMAIN NameOrder :
        NameOrder[i] = a /\ NameOrder[j] = b /\ i < j

\* the comparison analyze_conflicts sorts by
ConflictLess(a, b) ==
    \/ NameLess(a.partition, b.partition)
    \/ a.partition = b.partition /\ a.relative_path < b.relative_path

\* the entries of the walk that are recorded: regular files
Walked(tree, rel) == tree[rel] = "file"

\* file_map[rel]: the ids of the layers holding a file there, in layer order
FileMap(op, trees, rel) ==
    LET has(layer) == Walked(trees[layer], rel)
        sel == SelectSeq(op.lowerdirs, has)
    IN  [i \in DOMAIN sel |-> Unwrap(extract_id(sel[i]))]

\* local_conflicts of one op, as a set
LocalConflicts(op, trees) ==
    {[partition |-> op.partition_name, relative_path |-> rel,
      contending_modules |-> FileMap(op, trees, rel)] :
        rel \in {rel \in RelPaths : Len(FileMap(op, trees, rel)) > 1}}

\* analyze_conflicts: the reports it can return.  The entries of an op come
\* out in the iteration order of a HashMap; the stable sort leaves entries
\* that compare equal in the order they came.
analyze_conflicts(p, trees) ==
    LET conflicts == UNION {LocalConflicts(op, trees) :
                              op \in Range(p.overlay_ops)}
    IN  {details \in Perms(conflicts) :
            \A i, j \in DOMAIN details :
                i < j => ~ConflictLess(details[j], details[i])}

(***************************************************************************)
(* magic_mount::do_magic_mount on a Directory node.  Names are numbers;    *)
(* the node is named 0, and a path is the sequence of names from it.       *)
(***************************************************************************)
\* node::NodeFileType
NodeFileTypes == {"RegularFile", "Directory", "Symlink", "Whiteout"}

\* what the host holds at a path: nothing, a regular file, a directory, a
\* symlink to something that exists, or a symlink to nothing
HostKinds ==
    {"absent", "RegularFile", "Directory", "Symlink", "DanglingSymlink"}

\* Path::exists, which follows symlinks
Exists(kind) == kind \notin {"absent", "DanglingSymlink"}

\* Path::symlink_metadata and NodeFileType::from_file_type: the type of the
\* entry itself, if there is one
HostFileType(kind) ==
    IF kind = "absent" THEN None
    ELSE IF kind = "DanglingSymlink" THEN Some("Symlink")
    ELSE Some(kind)

\* Node { name, file_type, children, module_path, replace, skip: false }
Node(name, file_type, module_path, replace, children) ==
    [name |-> name, file_type |-> file_type, module_path |-> module_path,
     replace |-> replace, children |-> children]

\* faulty variant: a path missing on the host needs no tmpfs
NeedOnlyOnMismatch(node, kind) ==
    IF node.file_type = "Symlink" THEN TRUE
    ELSE IF node.file_type = "Whiteout" THEN Exists(kind)
    ELSE IF IsSome(HostFileType(kind))
         THEN LET ft == Unwrap(HostFileType(kind))
              IN  ft # node.file_type \/ ft = "Symlink"
         ELSE FALSE

\* do_magic_mount, `need`: whether a child cannot be mounted on the host
\* path as it is
Need(node, kind) ==
    IF node.file_type = "Symlink" THEN TRUE
    ELSE IF node.file_type = "Whiteout" THEN Exists(kind)
    ELSE IF IsSome(HostFileType(kind))
         THEN LET ft == Unwrap(HostFileType(kind))
              IN  ft # node.file_type \/ ft = "Symlink"
         ELSE TRUE

\* faulty variant: a child in need is skipped whatever the node holds
NoSourceAlways(current) == TRUE

\* do_magic_mount: current.module_path.is_none()
NoSource(current) == current.module_path = None

\* do_magic_mount, the loop over the children in the order the HashMap
\* yields them: the children it marks skip, and whether it ends by
\* deciding for a tmpfs
RECURSIVE ScanChildren(_, _, _, _)
ScanChildren(order, current, path, h) ==
    IF order = <<>> THEN [create_tmpfs |-> FALSE, skipped |-> {}]
    ELSE LET node == Head(order)
             real_path == Append(path, node.name)
         IN  IF Need(node, h[real_path])
             THEN IF NoSource(current)
                  THEN LET rest == ScanChildren(Tail(order), current, path, h)
                       IN  [rest EXCEPT !.skipped = @ \cup {node.name}]
                  ELSE [create_tmpfs |-> TRUE, skipped |-> {}]
             ELSE ScanChildren(Tail(order), current, path, h)

\* do_magic_mount, Directory: create_tmpfs and the children marked skip
TmpfsDecision(order, current, path, has_tmpfs, h) ==
    LET create_tmpfs == ~has_tmpfs /\ current.replace /\ ~NoSource(current)
    IN  IF ~has_tmpfs /\ ~create_tmpfs
        THEN ScanChildren(order, current, path, h)
        ELSE [create_tmpfs |-> create_tmpfs, skipped |-> {}]

\* an order of the children of a node
SomeOrder(children) == CHOOSE order \in Perms(children) : TRUE

\* do_magic_mount: the paths of the nodes it is called on, given the order
\* in which the children of the first node are inspected.  Every child not
\* marked skip is recursed into, either in the loop over the entries of the
\* host directory or in the loop over the remaining children.
RECURSIVE Realised(_, _, _, _, _)
Realised(order, parent_path, current, has_tmpfs, h) ==
    LET path == Append(parent_path, current.name)
    IN  IF current.file_type # "Directory" THEN {path}
        ELSE LET decided == TmpfsDecision(order, current, path, has_tmpfs, h)
                 inner == has_tmpfs \/ decided.create_tmpfs
             IN  {path} \cup
                 UNION {Realised(SomeOrder(node.children), path, node,
                                 inner, h) :
                          node \in {node \in current.children :
                                      node.name \notin decided.skipped}}

\* do_magic_mount on a Directory node
do_magic_mount(order, current, has_tmpfs, h) ==
    LET decided == TmpfsDecision(order, current, <<current.name>>, has_tmpfs, h)
    IN  [create_tmpfs |-> decided.create_tmpfs, skipped |-> decided.skipped,
         realised |-> Realised(order, <<>>, current, has_tmpfs, h)]

(***************************************************************************)
(* executor::execute, phase by phase, on the record of its locals          *)
(***************************************************************************)
\* the locals before any plan is loaded
NoLocals ==
    [magic_queue |-> <<>>, global_success_map |-> {},
     final_overlay_ids |-> {}, final_hymo_ids |-> {},
     pending_hymo_fallbacks |-> <<>>, merged_overlay_ops |-> <<>>,
     final_magic_ids |-> <<>>, magic_tree |-> {}]

\* the locals as execute initialises them from the plan
Locals(p) ==
    [NoLocals EXCEPT !.magic_queue = p.magic_module_paths,
                     !.final_overlay_ids = Range(p.overlay_module_ids),
                     !.final_hymo_ids = Range(p.hymo_module_ids)]

\* part_name of a hymo op
PartName(op) ==
    IF IsSome(FileName(op.target)) THEN Unwrap(FileName(op.target))
    ELSE "unknown"

PendingOverlayItem(op) == [source |-> op.source, partition |-> PartName(op)]

\* the entries one layer adds to a map from module root to partition names,
\* kept as a set of <<root, partition>> pairs
SuccessOf(layer_path, partition) ==
    IF IsSome(extract_module_root(layer_path))
    THEN {<<Unwrap(extract_module_root(layer_path)), partition>>}
    ELSE {}

\* faulty variant: nothing is queued when the kernel feature is missing
FallsBackOnlyOnError(op, available, failed) == op \in failed

\* Phase 1: whether a hymo op is queued for the overlay fallback
FallsBack(op, available, failed) == ~available \/ op \in failed

\* faulty variant: the ids of the queued ops stay in the hymo set
RemoveQueuedNever(final_hymo_ids, queued) == final_hymo_ids

\* Phase 1: final_hymo_ids.remove(&op.module_id) for every queued op
RemoveQueued(final_hymo_ids, queued) ==
    final_hymo_ids \ {op.module_id : op \in Range(queued)}

\* Phase 1, given whether HymoFs::is_available() and the ops for which
\* HymoFs::inject_directory returns Err
Phase1(l, p, available, failed) ==
    IF p.hymo_ops = <<>> THEN l
    ELSE LET falls(op) == FallsBack(op, available, failed)
             stays(op) == ~falls(op)
             queued == SelectSeq(p.hymo_ops, falls)
             injected == SelectSeq(p.hymo_ops, stays)
         IN  [l EXCEPT
                !.pending_hymo_fallbacks =
                    [i \in DOMAIN queued |-> PendingOverlayItem(queued[i])],
                !.final_hymo_ids = RemoveQueued(@, queued),
                !.global_success_map =
                    @ \cup UNION {SuccessOf(op.source, PartName(op)) :
                                    op \in Range(injected)}]

\* faulty variant: the fallback source goes behind the other layers
InsertBack(lowerdirs, source) == Append(lowerdirs, source)

\* Phase 2: op.lowerdirs.insert(0, item.source)
InsertFront(lowerdirs, source) == <<source>> \o lowerdirs

\* faulty variant: no existing op is ever found for the item
FindNever(ops, item) == {}

\* Phase 2: final_overlay_ops.iter_mut().find(|o| o.partition_name == item.partition)
Find(ops, item) ==
    {i \in DOMAIN ops : ops[i].partition_name = item.partition}

\* Phase 2, one pending item
MergeItem(l, item, h) ==
    LET ops == l.merged_overlay_ops
        found == Find(ops, item)
        routed ==
            IF found # {}
            THEN LET i == CHOOSE i \in found : \A k \in found : i <= k
                 IN  [l EXCEPT !.merged_overlay_ops[i].lowerdirs =
                                    InsertFront(@, item.source)]
            ELSE IF TargetExists(h, item.partition)
            THEN [l EXCEPT !.merged_overlay_ops =
                    Append(@, [partition_name |-> item.partition,
                               target |-> <<item.partition>>,
                               lowerdirs |-> <<item.source>>])]
            ELSE IF IsSome(extract_module_root(item.source))
            THEN [l EXCEPT !.magic_queue =
                    Append(@, Unwrap(extract_module_root(item.source)))]
            ELSE l
    IN  IF IsSome(extract_id(item.source))
        THEN [routed EXCEPT !.final_overlay_ids =
                                @ \cup {Unwrap(extract_id(item.source))}]
        ELSE routed

RECURSIVE MergeItems(_, _, _)
MergeItems(l, items, h) ==
    IF items = <<>> THEN l
    ELSE MergeItems(MergeItem(l, Head(items), h), Tail(items), h)

\* Phase 2
Phase2(l, p, h) ==
    MergeItems([l EXCEPT !.merged_overlay_ops = p.overlay_ops],
               l.pending_hymo_fallbacks, h)

\* the module roots of an op's layers, in layer order
RECURSIVE MagicRoots(_)
MagicRoots(lowerdirs) ==
    IF lowerdirs = <<>> THEN <<>>
    ELSE (IF IsSome(extract_module_root(Head(lowerdirs)))
          THEN <<Unwrap(extract_module_root(Head(lowerdirs)))>>
          ELSE <<>>) \o MagicRoots(Tail(lowerdirs))

\* the ids an op's failure removes from the overlay set
FallbackIds(lowerdirs) ==
    {Unwrap(extract_id(layer)) :
        layer \in {layer \in Range(lowerdirs) :
                     /\ IsSome(extract_module_root(layer))
                     /\ IsSome(extract_id(layer))}}

RECURSIVE FailedRoots(_, _)
FailedRoots(ops, failed) ==
    IF ops = <<>> THEN <<>>
    ELSE (IF Head(ops).partition_name \in failed
          THEN MagicRoots(Head(ops).lowerdirs) ELSE <<>>)
         \o FailedRoots(Tail(ops), failed)

\* Phase 3 and the sort and dedup of the magic queue, given the partitions
\* whose overlay::mount_overlay returns Err
Phase3(l, failed) ==
    LET ops == l.merged_overlay_ops
        lost == {op \in Range(ops) : op.partition_name \in failed}
        done == Range(ops) \ lost
    IN  [l EXCEPT
           !.magic_queue = SortDedup(@ \o FailedRoots(ops, failed)),
           !.final_overlay_ids =
               @ \ UNION {FallbackIds(op.lowerdirs) : op \in lost},
           !.global_success_map =
               @ \cup UNION {UNION {SuccessOf(layer, op.partition_name) :
                                        layer \in Range(op.lowerdirs)} :
                               op \in done}]

\* the outcomes of Phase 4: not entered, select_temp_dir fails,
\* ensure_temp_dir fails, magic::mount_partitions fails, all succeed
Phase4Outcomes(l, tempdir) ==
    IF l.magic_queue = <<>> THEN {"skipped"}
    ELSE {"ensure_err", "mount_err", "ok"}
         \cup (IF IsSome(tempdir) THEN {} ELSE {"select_err"})

\* faulty variant: no queued module root is reported
QueueNamesNone(queue) == <<>>

\* the file names of the queued module roots
QueueNames(queue) ==
    LET named(path) == IsSome(FileName(path))
        sel == SelectSeq(queue, named)
    IN  [i \in DOMAIN sel |-> Unwrap(FileName(sel[i]))]

\* magic_mount::collect_module_files: the directories collected into the
\* tree, as <<module root, partition>>: the system directory of every
\* content path that has one
collect_module_files(content_paths, disk) ==
    {<<root, "system">> :
        root \in {root \in Range(content_paths) :
                    \E m \in disk : /\ FileName(root) = Some(m.id)
                                     /\ "system" \in m.parts}}

\* Phase 4: final_magic_ids under an outcome, and the tree mount_partitions
\* collected if it was called
Phase4(l, outcome, disk) ==
    [l EXCEPT !.final_magic_ids =
                 IF outcome \in {"ensure_err", "ok"}
                 THEN QueueNames(l.magic_queue) ELSE <<>>,
              !.magic_tree =
                 IF outcome \in {"mount_err", "ok"}
                 THEN collect_module_files(l.magic_queue, disk) ELSE {}]

\* whether execute returns Err under an outcome of Phase 4
Propagates(outcome) == outcome \in {"select_err", "ensure_err"}

\* the ExecutionResult
Result(l) ==
    [overlay_module_ids |-> SortIds(l.final_overlay_ids),
     hymo_module_ids |-> SortIds(l.final_hymo_ids),
     magic_module_ids |-> SortIds(Range(l.final_magic_ids))]

(***************************************************************************)
(* run(): one action per step                                              *)
(***************************************************************************)
\* the answers of the environment, before any is given
NoEnv ==
    [hymo_available |-> FALSE, inject_failed |-> {}, overlay_failed |-> {},
     phase4 |-> "none"]

\* run() returns the error of a step
Fails(step) == pc' = "failed" /\ fatal' = Some(step)

\* run() goes on to the next step
GoesTo(next) == pc' = next /\ fatal' = None

\* load_config, init_logging and ensure_dir_exists(RUN_DIR)
run_start ==
    /\ pc = "start"
    /\ GoesTo("storage_setup") \/ Fails("start")
    /\ UNCHANGED <<daemon_config, modules, host, module_list, storage, plan, exec, env,
                   exec_result>>
    /\ UNCHANGED <<gvars, fvars, tvars>>

storage_setup ==
    /\ pc = "storage_setup"
    /\ GoesTo("scan") \/ Fails("storage_setup")
    /\ UNCHANGED <<daemon_config, modules, host, module_list, storage, plan, exec, env,
                   exec_result>>
    /\ UNCHANGED <<gvars, fvars, tvars>>

inventory_scan ==
    /\ pc = "scan"
    /\ \/ GoesTo("perform_sync") /\ module_list' = scan(modules)
       \/ Fails("scan") /\ UNCHANGED module_list
    /\ UNCHANGED <<daemon_config, modules, host, storage, plan, exec, env, exec_result>>
    /\ UNCHANGED <<gvars, fvars, tvars>>

perform_sync ==
    /\ pc = "perform_sync"
    /\ \/ GoesTo("generate") /\ storage' = Synced(module_list, modules)
       \/ Fails("perform_sync") /\ UNCHANGED storage
    /\ UNCHANGED <<daemon_config, modules, host, module_list, plan, exec, env, exec_result>>
    /\ UNCHANGED <<gvars, fvars, tvars>>

planner_generate ==
    /\ pc = "generate"
    /\ plan' \in generate(daemon_config, host, module_list, modules, storage)
    /\ exec' = Locals(plan')
    /\ GoesTo("phase1")
    /\ UNCHANGED <<daemon_config, modules, host, module_list, storage, env, exec_result>>
    /\ UNCHANGED <<gvars, fvars, tvars>>

execute_phase1 ==
    /\ pc = "phase1"
    /\ \E available \in (IF plan.hymo_ops = <<>> THEN {FALSE} ELSE BOOLEAN) :
        \E failed \in (IF available THEN SUBSET Range(plan.hymo_ops) ELSE {{}}) :
            /\ exec' = Phase1(exec, plan, available, failed)
            /\ env' = [env EXCEPT !.hymo_available = available,
                                  !.inject_failed = failed]
    /\ GoesTo("phase2")
    /\ UNCHANGED <<daemon_config, modules, host, module_list, storage, plan, exec_result>>
    /\ UNCHANGED <<gvars, fvars, tvars>>

execute_phase2 ==
    /\ pc = "phase2"
    /\ exec' = Phase2(exec, plan, host)
    /\ GoesTo("phase3")
    /\ UNCHANGED <<daemon_config, modules, host, module_list, storage, plan, env,
                   exec_result>>
    /\ UNCHANGED <<gvars, fvars, tvars>>

execute_phase3 ==
    /\ pc = "phase3"
    /\ \E failed \in SUBSET {op.partition_name :
                                op \in Range(exec.merged_overlay_ops)} :
            /\ exec' = Phase3(exec, failed)
            /\ env' = [env EXCEPT !.overlay_failed = failed]
    /\ GoesTo("phase4")
    /\ UNCHANGED <<daemon_config, modules, host, module_list, storage, plan, exec_result>>
    /\ UNCHANGED <<gvars, fvars, tvars>>

\* Phase 4 and the return of execute; config.tempdir is None or a directory
execute_phase4 ==
    /\ pc = "phase4"
    /\ \E tempdir \in {None, Some("tempdir")} :
        \E outcome \in Phase4Outcomes(exec, tempdir) :
            /\ exec' = Phase4(exec, outcome, modules)
            /\ env' = [env EXCEPT !.phase4 = outcome]
            /\ IF Propagates(outcome)
               THEN Fails("execute") /\ UNCHANGED exec_result
               ELSE GoesTo("post") /\ exec_result' = Some(Result(exec'))
    /\ UNCHANGED <<daemon_config, modules, host, module_list, storage, plan>>
    /\ UNCHANGED <<gvars, fvars, tvars>>

\* nuke, update_description and RuntimeState::save, whose error is logged
run_finish ==
    /\ pc = "post"
    /\ GoesTo("done")
    /\ UNCHANGED <<daemon_config, modules, host, module_list, storage, plan, exec, env,
                   exec_result>>
    /\ UNCHANGED <<gvars, fvars, tvars>>

\* the process is killed: what it held in memory is gone
kill ==
    /\ pc \notin {"done", "failed", "killed", "off"}
    /\ pc' = "killed"
    /\ module_list' = <<>>
    /\ plan' = EmptyPlan
    /\ exec' = NoLocals
    /\ env' = NoEnv
    /\ exec_result' = None
    /\ fatal' = None
    /\ UNCHANGED <<daemon_config, modules, host, storage>>
    /\ UNCHANGED <<gvars, fvars, tvars>>

(***************************************************************************)
(* Spec: one daemon run over every module directory and host layout.  The  *)
(* Granary files are not touched; the counter file is absent or left by an *)
(* earlier run.                                                            *)
(***************************************************************************)
\* ModuleRules of a module: a default mode, and no rule or one for "oem"
RuleSets ==
    [default_mode : {"Overlay", "Magic", HymoMode},
     paths : {{}, {<<"oem", "Magic">>}}]

\* what a module directory holds: rules and populated partition directories;
\* a path rule is listed where it changes the mode of a populated directory
Shapes ==
    {s \in [rules : RuleSets, parts : SUBSET Partitions \ {{}}] :
        \A e \in s.rules.paths :
            /\ e[1] \in s.parts
            /\ s.rules.default_mode = "Overlay"}

\* a module directory with default rules and a populated system directory
PlainShape ==
    [rules |-> [default_mode |-> "Overlay", paths |-> {}], parts |-> {"system"}]

Entry(i, shape, markers) ==
    [id |-> i, rules |-> shape.rules, parts |-> shape.parts,
     markers |-> markers]

\* the directories that can bear a name: a reserved name is a plain
\* directory, any other is a module of any shape or a plain one with a marker
EntryChoices(i) ==
    IF i \in ReservedIds THEN {Entry(i, PlainShape, {})}
    ELSE {Entry(i, shape, {}) : shape \in Shapes}
         \cup {Entry(i, PlainShape, {marker}) : marker \in Markers}

RECURSIVE DirsOver(_)
DirsOver(ids) ==
    IF ids = {} THEN {{}}
    ELSE LET i == CHOOSE i \in ids : TRUE
         IN  {d \cup {e} : d \in DirsOver(ids \ {i}), e \in EntryChoices(i)}

ModuleDirs ==
    UNION {DirsOver(ids) : ids \in SUBSET (0..MaxModules)}

\* /system and /data are directories; /oem is a directory, a symlink to
\* one, or absent
Hosts ==
    {h \in [AllPartitions -> {"dir", "symlink", "missing"}] :
        h["system"] = "dir" /\ h["data"] = "dir"}

\* Config::default()
DefaultConfig == [partitions |-> {}]

\* no run in progress
RunOff ==
    /\ pc = "off"
    /\ daemon_config = DefaultConfig
    /\ modules = {}
    /\ host = [part \in AllPartitions |-> "dir"]
    /\ module_list = <<>>
    /\ storage = {}
    /\ plan = EmptyPlan
    /\ exec = NoLocals
    /\ env = NoEnv
    /\ exec_result = None
    /\ fatal = None

\* no function called on its own
NoCall == [fn |-> "none"]

\* the threads of the process
Threads == 1..MaxThreads

\* a thread outside try_umount.rs
IdleThread == [pc |-> "idle", fn |-> "none", target |-> <<>>, fd |-> 0]

\* OnceLock::new(): no value yet and no initialiser running
Uninit == [state |-> "incomplete", value |-> 0, by |-> 0]

\* the statics of try_umount.rs when the process starts, and no thread in it
NoThreads ==
    /\ thread = [t \in Threads |-> IdleThread]
    /\ DRIVER_FD = Uninit
    /\ SENT_UNMOUNTS = [set |-> {}, lock |-> 0]
    /\ ioctls = [calls |-> 0, grab_fd |-> 0, add_try_umount |-> <<>>, nuke |-> 0]

Init ==
    /\ counter_file \in {None, Some(FormatU8(1))}
    /\ granary = [f \in TimePoints |-> None]
    /\ config_file = None
    /\ state_file = None
    /\ last = NoOp
    /\ call = NoCall
    /\ ret = None
    /\ pc = "start"
    /\ daemon_config = DefaultConfig
    /\ modules \in ModuleDirs
    /\ host \in Hosts
    /\ module_list = <<>>
    /\ storage = {}
    /\ plan = EmptyPlan
    /\ exec = NoLocals
    /\ env = NoEnv
    /\ exec_result = None
    /\ fatal = None
    /\ NoThreads

Next ==
    \/ run_start
    \/ storage_setup
    \/ inventory_scan
    \/ perform_sync
    \/ planner_generate
    \/ execute_phase1
    \/ execute_phase2
    \/ execute_phase3
    \/ execute_phase4
    \/ run_finish
    \/ kill

Spec == Init /\ [][Next]_vars

(***************************************************************************)
(* SpecPrune: the Granary under every configuration.  Each create_silo     *)
(* call takes any configuration and any instant; the config and state      *)
(* files keep the text they start with.                                    *)
(***************************************************************************)
\* a Granary holding at most one file, which is damaged
DamagedGranaries ==
    {g \in [TimePoints -> {None, Some(Damaged(ToJson(MkSilo(0, "auto",
                [max_backups |-> 0, retention_days |-> 0], None, None))))}] :
        Cardinality({f \in TimePoints : IsSome(g[f])}) <= 1}

PruneInit ==
    /\ counter_file = None
    /\ granary \in DamagedGranaries
    /\ config_file \in {Some(t) : t \in UserConfigTexts}
    /\ state_file = None
    /\ last = NoOp
    /\ RunOff
    /\ call = NoCall
    /\ ret = None
    /\ NoThreads

create_silo == CreateSilo(Configs)

PruneNext ==
    \/ create_silo
    \/ delete_silo

SpecPrune == PruneInit /\ [][PruneNext]_vars

(***************************************************************************)
(* SpecRatoon: the Ratoon watchdog and restores over every file content.   *)
(* Snapshots are taken by a process running with RatoonConfig; the config  *)
(* and state files are rewritten between operations.                       *)
(***************************************************************************)
RatoonConfig == [max_backups |-> MaxBackupsBound, retention_days |-> 0]

RatoonInit ==
    /\ counter_file = None
    /\ granary \in DamagedGranaries
    /\ config_file = None
    /\ state_file = None
    /\ last = NoOp
    /\ RunOff
    /\ call = NoCall
    /\ ret = None
    /\ NoThreads

snapshot == CreateSilo({RatoonConfig})

RatoonNext ==
    \/ engage_ratoon_protocol
    \/ disengage_ratoon_protocol
    \/ snapshot
    \/ delete_silo
    \/ restore_silo
    \/ write_config
    \/ write_state

SpecRatoon == RatoonInit /\ [][RatoonNext]_vars

(***************************************************************************)
(* SpecPlan: scan, sync and planner under every configuration.  The user   *)
(* may have added the extra partition names to config.partitions, a module *)
(* may populate any directory, and a path rule may go against any default. *)
(***************************************************************************)
PlanRuleSets ==
    [default_mode : {"Overlay", "Magic", HymoMode},
     paths : {{}, {<<"oem", "Magic">>}, {<<"system", "Overlay">>}}]

\* a path rule is listed where it names a populated directory and a mode
\* other than the default
PlanShapes ==
    {s \in [rules : PlanRuleSets, parts : SUBSET AllPartitions \ {{}}] :
        \A e \in s.rules.paths :
            /\ e[1] \in s.parts
            /\ e[2] # s.rules.default_mode}

\* the module directories that hold the modules named ids
PlanModuleDirs(ids) ==
    {{Entry(i, f[i], {}) : i \in ids} : f \in [ids -> PlanShapes]}

PlanConfigs == [partitions : SUBSET ExtraPartitions]

PlanInit ==
    /\ counter_file = None
    /\ granary = [f \in TimePoints |-> None]
    /\ config_file = None
    /\ state_file = None
    /\ last = NoOp
    /\ call = NoCall
    /\ ret = None
    /\ pc = "scan"
    /\ daemon_config \in PlanConfigs
    /\ \E ids \in SUBSET (1..MaxModules) : modules \in PlanModuleDirs(ids)
    /\ host \in Hosts
    /\ module_list = <<>>
    /\ storage = {}
    /\ plan = EmptyPlan
    /\ exec = NoLocals
    /\ env = NoEnv
    /\ exec_result = None
    /\ fatal = None
    /\ NoThreads

PlanNext ==
    \/ inventory_scan
    \/ perform_sync
    \/ planner_generate

SpecPlan == PlanInit /\ [][PlanNext]_vars

(***************************************************************************)
(* Claims about the Granary and the Ratoon watchdog                        *)
(***************************************************************************)
\* the parsable silo with the highest timestamp
Newest(g) ==
    CHOOSE s \in ParsedSilos(g) : \A t \in ParsedSilos(g) : t.timestamp <= s.timestamp

C9_NewestSurvives ==
    last.op = "create_silo" =>
        \E s \in ParsedSilos(granary) : s.timestamp = Unwrap(last.newest)

\* a prune has run with a retention limit that the newest silo exceeds, and
\* the newest silo is present
C9_Witness ==
    /\ last.op = "create_silo"
    /\ Unwrap(last.config).retention_days > 0
    /\ ParsedSilos(granary) # {}
    /\ Newest(granary).timestamp < last.expiration_ts

\* C10 as stated: a parsable silo file, as long as it exists, keeps the
\* content it was written with, whatever operation runs.
C10_SiloFilesImmutable ==
    [][\A f \in TimePoints :
          (/\ IsSome(granary[f])
           /\ Unwrap(granary[f]).valid
           /\ IsSome(granary'[f])) => granary'[f] = granary[f]
    ]_gvars

\* C11 as stated: when an engage call reached a count of at least 3 and the
\* restore of the latest silo failed, every module directory holds a disable
\* marker and the counter file is gone when the call ends.
C11_FailedRestoreDisablesAndResets ==
    (last.op = "engage" /\ last.count >= RatoonThreshold /\ last.notice = None)
        => /\ last.disabled = ModuleEntries
           /\ counter_file = None

(***************************************************************************)
(* Claims about the daemon run and the executor                            *)
(***************************************************************************)
\* the positions of run() past its start and before its return
RunSteps ==
    {"storage_setup", "scan", "perform_sync", "generate", "phase1", "phase2",
     "phase3", "phase4", "post"}

\* C2 as stated: during every step of a run (storage setup, scan, sync,
\* planning, execution) the Ratoon counter file is on disk with a count of
\* at least 1, it is still there after a run that failed in a step or was
\* killed, and it is absent once the run has completed.
C2_CounterBracketsRun ==
    /\ (pc \in RunSteps \cup {"killed"} \/ (pc = "failed" /\ fatal # Some("start")))
          => /\ IsSome(counter_file)
             /\ ParseU8(Unwrap(counter_file)) # None
    /\ pc = "done" => counter_file = None

\* the ids of a returned ExecutionResult, as sets
OverlayIds == Range(Unwrap(exec_result).overlay_module_ids)
HymoIds == Range(Unwrap(exec_result).hymo_module_ids)
MagicIds == Range(Unwrap(exec_result).magic_module_ids)

\* C3 as stated: once execute has returned, overlay_module_ids,
\* hymo_module_ids and magic_module_ids are pairwise disjoint.
C3_PairwiseDisjoint ==
    IsSome(exec_result) =>
        /\ OverlayIds \cap HymoIds = {}
        /\ OverlayIds \cap MagicIds = {}
        /\ HymoIds \cap MagicIds = {}

\* C3: once execute has returned, hymo_module_ids shares no id with
\* overlay_module_ids and none with magic_module_ids, whatever hymo
\* injections, overlay mounts and magic mount failed.
C3_HymoDisjoint ==
    IsSome(exec_result) =>
        /\ HymoIds \cap OverlayIds = {}
        /\ HymoIds \cap MagicIds = {}

\* execute has returned after a failed injection, with a module in the hymo
\* set and another in both the overlay and the magic set
C3_Witness ==
    /\ IsSome(exec_result)
    /\ env.inject_failed # {}
    /\ HymoIds # {}
    /\ OverlayIds \cap MagicIds # {}

\* the ids of the modules owning the layers of an overlay op
LayerIds(op) == {Unwrap(extract_id(layer)) : layer \in Range(op.lowerdirs)}

\* the overlay ops whose mount failed in Phase 3
FailedOps ==
    {op \in Range(exec.merged_overlay_ops) :
        op.partition_name \in env.overlay_failed}

\* C4 as stated: once execute has returned, for every overlay op whose mount
\* failed every layer's module root is in the magic queue and its module id
\* is out of overlay_module_ids and, unless the magic mount failed, in
\* magic_module_ids; and if the only overlay op failed, overlay_module_ids
\* is empty.
C4_FailedOpFallsBackToMagic ==
    IsSome(exec_result) =>
        /\ \A op \in FailedOps : \A layer \in Range(op.lowerdirs) :
              /\ Unwrap(extract_module_root(layer)) \in Range(exec.magic_queue)
              /\ Unwrap(extract_id(layer)) \notin OverlayIds
              /\ env.phase4 # "mount_err"
                    => Unwrap(extract_id(layer)) \in MagicIds
        /\ (Len(exec.merged_overlay_ops) = 1 /\ FailedOps # {})
              => /\ OverlayIds = {}
                 /\ env.phase4 # "mount_err"
                       => \A op \in FailedOps : LayerIds(op) \subseteq MagicIds

\* Phase 1 of execute has run
AfterPhase1 ==
    \/ pc \in {"phase2", "phase3", "phase4", "post", "done"}
    \/ pc = "failed" /\ fatal = Some("execute")

\* a hymo op is in the queue of overlay fallbacks
Queued(op) ==
    PendingOverlayItem(op) \in Range(exec.pending_hymo_fallbacks)

\* C5: after Phase 1, if the hymo kernel feature was unavailable every hymo
\* op of the plan is queued for the overlay fallback and the hymo set is
\* empty (and so is the returned hymo_module_ids); if it was available, an
\* op is queued with its module id out of the hymo set exactly when its
\* injection failed, and no op whose injection succeeded is queued; nothing
\* else is queued.
C5_Phase1Fallback ==
    AfterPhase1 =>
        LET ops == Range(plan.hymo_ops)
        IN  /\ ~env.hymo_available =>
                /\ \A op \in ops : Queued(op)
                /\ exec.final_hymo_ids = {}
                /\ IsSome(exec_result) => HymoIds = {}
            /\ env.hymo_available =>
                /\ \A op \in ops :
                      op \in env.inject_failed
                          <=> (Queued(op)
                               /\ op.module_id \notin exec.final_hymo_ids)
                /\ \A op \in ops \ env.inject_failed : ~Queued(op)
            /\ Len(exec.pending_hymo_fallbacks)
                  = Cardinality({op \in ops : Queued(op)})

\* Phase 1 ran with the kernel feature available; one injection failed,
\* another succeeded
C5_Witness ==
    /\ pc = "phase2"
    /\ env.hymo_available
    /\ env.inject_failed # {}
    /\ Range(plan.hymo_ops) \ env.inject_failed # {}

\* the pending items of a partition, in queue order
ItemsOf(part) ==
    LET of(item) == item.partition = part
    IN  SelectSeq(exec.pending_hymo_fallbacks, of)

\* the planner's overlay ops for a partition, and those after Phase 2
PlannedOps(part) ==
    {op \in Range(plan.overlay_ops) : op.partition_name = part}
MergedOps(part) ==
    {i \in DOMAIN exec.merged_overlay_ops :
        exec.merged_overlay_ops[i].partition_name = part}

\* the sum of the lengths of the lowerdirs of a sequence of ops
RECURSIVE LayerCount(_)
LayerCount(ops) ==
    IF ops = <<>> THEN 0 ELSE Len(Head(ops).lowerdirs) + LayerCount(Tail(ops))

\* C6: when Phase 2 has run, each pending item went to exactly one place.
\* For a partition the planner made an op for, the op's lowerdirs are the
\* sources of the partition's items followed by the planner's lowerdirs in
\* their order.  For a partition without a planned op whose /<partition>
\* exists, one op was added, its lowerdirs being the sources of the items.
\* For a partition without a planned op and without /<partition>, no op
\* exists and the module root of each item is in the magic queue.  No other
\* layer and no other magic root was added.
C6_Phase2Routing ==
    pc = "phase3" =>
        /\ \A part \in Partitions :
            LET items == ItemsOf(part)
                sources == {items[i].source : i \in DOMAIN items}
                k == Len(items)
                merged == MergedOps(part)
            IN  IF PlannedOps(part) # {}
                THEN /\ Cardinality(merged) = 1
                     /\ \A i \in merged :
                          LET l == exec.merged_overlay_ops[i].lowerdirs
                          IN  /\ Len(l) >= k
                              /\ {l[j] : j \in 1..k} = sources
                              /\ \E op \in PlannedOps(part) :
                                    SubSeq(l, k + 1, Len(l)) = op.lowerdirs
                ELSE IF k > 0 /\ TargetExists(host, part)
                THEN /\ Cardinality(merged) = 1
                     /\ \A i \in merged :
                          LET l == exec.merged_overlay_ops[i].lowerdirs
                          IN  Len(l) = k /\ Range(l) = sources
                ELSE /\ merged = {}
                     /\ \A i \in DOMAIN items :
                          Unwrap(extract_module_root(items[i].source))
                              \in Range(exec.magic_queue)
        /\ LET unrouted == {part \in Partitions :
                               /\ PlannedOps(part) = {}
                               /\ ~TargetExists(host, part)}
               tomagic(item) == item.partition \in unrouted
               n == Len(SelectSeq(exec.pending_hymo_fallbacks, tomagic))
           IN  /\ Len(exec.magic_queue) = Len(plan.magic_module_paths) + n
               /\ LayerCount(exec.merged_overlay_ops)
                     = LayerCount(plan.overlay_ops)
                       + Len(exec.pending_hymo_fallbacks) - n

\* Phase 2 has put a fallback source in front of a planned op's layers and
\* sent another item to the magic queue
C6_Witness ==
    /\ pc = "phase3"
    /\ \E part \in Partitions : PlannedOps(part) # {} /\ ItemsOf(part) # <<>>
    /\ \E part \in Partitions :
          /\ ItemsOf(part) # <<>>
          /\ PlannedOps(part) = {}
          /\ ~TargetExists(host, part)

\* C7 as stated: when Phase 4 was entered and one of its steps failed
\* (select_temp_dir, ensure_temp_dir or the magic mount), execute has
\* returned Ok with magic_module_ids empty and the overlay and hymo sets as
\* they stood before Phase 4.
C7_Phase4NeverAborts ==
    env.phase4 \in {"select_err", "ensure_err", "mount_err"} =>
        /\ IsSome(exec_result)
        /\ MagicIds = {}
        /\ OverlayIds = exec.final_overlay_ids
        /\ HymoIds = exec.final_hymo_ids

(***************************************************************************)
(* SpecLoad: ModuleRules::load on every pair of rule files.                *)
(***************************************************************************)
\* the granary and the run are idle while a function is called on its own
Idle ==
    /\ counter_file = None
    /\ granary = [f \in TimePoints |-> None]
    /\ config_file = None
    /\ state_file = None
    /\ last = NoOp
    /\ RunOff
    /\ NoThreads

\* the call ModuleRules::load(module_dir, module_id) returns
ModuleRules_load ==
    /\ call.fn = "load"
    /\ ret = None
    /\ ret' = Some(load(call.internal_config, call.user_config))
    /\ UNCHANGED call
    /\ UNCHANGED <<gvars, rvars, tvars>>

LoadInit ==
    /\ Idle
    /\ call \in [fn : {"load"}, internal_config : RuleFiles,
                  user_config : RuleFiles]
    /\ ret = None

LoadNext == ModuleRules_load

SpecLoad == LoadInit /\ [][LoadNext]_vars

(***************************************************************************)
(* SpecConflicts: analyze_conflicts on every plan over the builtin         *)
(* partitions and every content of its lowerdirs.                          *)
(***************************************************************************)
\* the lowerdir a module contributes to a partition
LayerPath(id, part) == Append(Append(StorageRoot, id), part)

\* the orders in which some of the modules can layer a partition
LayerOrders ==
    UNION {Perms(ids) : ids \in SUBSET (1..MaxModules) \ {{}}}

\* the overlay op generate builds for a partition
OpOf(part, order) ==
    [partition_name |-> part, target |-> <<part>>,
     lowerdirs |-> [i \in DOMAIN order |-> LayerPath(order[i], part)]]

\* the overlay ops of a plan: at most one per partition, in any order
ConflictOps ==
    UNION {UNION {Perms({OpOf(part, f[part]) : part \in parts}) :
                     f \in [parts -> LayerOrders]} :
              parts \in SUBSET Partitions}

\* the lowerdirs of a sequence of ops
LayersOf(ops) == UNION {Range(op.lowerdirs) : op \in Range(ops)}

\* the calls on a plan with the given overlay ops: every content of the
\* lowerdirs
ConflictCalls(ops) ==
    [fn : {"analyze_conflicts"},
     plan : {[EmptyPlan EXCEPT !.overlay_ops = ops]},
     trees : [LayersOf(ops) -> [RelPaths -> EntryKinds]]]

\* the call plan.analyze_conflicts() returns; the plan is borrowed
\* immutably
MountPlan_analyze_conflicts ==
    /\ call.fn = "analyze_conflicts"
    /\ ret = None
    /\ \E details \in analyze_conflicts(call.plan, call.trees) :
           ret' = Some([details |-> details, plan |-> call.plan])
    /\ UNCHANGED call
    /\ UNCHANGED <<gvars, rvars, tvars>>

ConflictsInit ==
    /\ Idle
    /\ \E ops \in ConflictOps : call \in ConflictCalls(ops)
    /\ ret = None

ConflictsNext == MountPlan_analyze_conflicts

SpecConflicts == ConflictsInit /\ [][ConflictsNext]_vars

(***************************************************************************)
(* SpecMagic: do_magic_mount on every Directory node with up to            *)
(* MaxChildren children over every host directory.                         *)
(***************************************************************************)
\* the module file a node stands for
ModuleSource == Some(Append(ModuleDir, 1))

\* a file below a child directory
Leaf == Node(1, "RegularFile", ModuleSource, FALSE, {})

\* the children a name can stand for: a node of any type from a module, a
\* directory being empty or holding one file
ChildChoices(name) ==
    {Node(name, file_type, ModuleSource, FALSE, {}) :
        file_type \in NodeFileTypes}
        \cup {Node(name, "Directory", ModuleSource, FALSE, {Leaf})}

RECURSIVE ChildSets(_)
ChildSets(names) ==
    IF names = {} THEN {{}}
    ELSE LET name == CHOOSE name \in names : TRUE
         IN  {rest \cup {node} : rest \in ChildSets(names \ {name}),
                                  node \in ChildChoices(name)}

\* the Directory nodes do_magic_mount is called on
DirNodes ==
    UNION {{Node(0, "Directory", module_path, replace, children) :
               module_path \in {None, ModuleSource}, replace \in BOOLEAN,
               children \in ChildSets(names)} :
              names \in SUBSET (1..MaxChildren)}

\* the host paths below a node: its children, and the file below each that
\* is a directory with a file
PathsBelow(current) ==
    {<<current.name, node.name>> : node \in current.children}
        \cup {<<current.name, node.name, Leaf.name>> :
                 node \in {node \in current.children : node.children # {}}}

\* what the host holds below a node; below a child directory the file is
\* on the host or not
HostsBelow(current) ==
    {h \in [PathsBelow(current) -> HostKinds] :
        \A path \in PathsBelow(current) :
            Len(path) = 3 => h[path] \in {"absent", "RegularFile"}}

\* the calls on a node: inside a tmpfs or not, over every host
MagicCalls(current) ==
    [fn : {"do_magic_mount"}, current : {current}, has_tmpfs : BOOLEAN,
     host : HostsBelow(current)]

\* the call do_magic_mount(path, work_dir_path, current, has_tmpfs)
\* returns, no mount having failed
magic_mount ==
    /\ call.fn = "do_magic_mount"
    /\ ret = None
    /\ \E order \in Perms(call.current.children) :
           ret' = Some(do_magic_mount(order, call.current, call.has_tmpfs,
                                      call.host))
    /\ UNCHANGED call
    /\ UNCHANGED <<gvars, rvars, tvars>>

MagicInit ==
    /\ Idle
    /\ \E current \in DirNodes : call \in MagicCalls(current)
    /\ ret = None

MagicNext == magic_mount

SpecMagic == MagicInit /\ [][MagicNext]_vars

(***************************************************************************)
(* Claims about the plan                                                   *)
(***************************************************************************)
\* the plan planner::generate returned is in hand
Planned == pc = "phase1"

\* Path::starts_with, for a path other than the base itself
Under(path, base) ==
    Len(path) > Len(base) /\ SubSeq(path, 1, Len(base)) = base

\* C12 as stated: whatever the module list, the storage root and the extra
\* partitions of the configuration, every overlay op of the plan has an
\* absolute target (here: a path of at least one component below "/"), at
\* least one lowerdir, and no lowerdir under its target.
C12_OpsWellFormed ==
    Planned =>
        \A i \in DOMAIN plan.overlay_ops :
            LET op == plan.overlay_ops[i]
            IN  /\ Len(op.target) > 0
                /\ op.lowerdirs # <<>>
                /\ \A j \in DOMAIN op.lowerdirs :
                       ~Under(op.lowerdirs[j], op.target)

\* a Vec of ids is sorted and free of duplicates
StrictlySorted(ids) == \A i, j \in DOMAIN ids : i < j => ids[i] < ids[j]

\* the ids of the modules with a lowerdir in some overlay op of the plan
PlanLayerIds ==
    UNION {{extract_id(layer) : layer \in Range(op.lowerdirs)} :
              op \in Range(plan.overlay_ops)}

\* each id of magic_module_ids has its content path in magic_module_paths
MagicIdsHavePaths ==
    \A id \in Range(plan.magic_module_ids) :
        \E path \in Range(plan.magic_module_paths) : FileName(path) = Some(id)

\* C13 as stated: in every plan generate returns, each id of
\* overlay_module_ids has a lowerdir in some overlay op, each id of
\* magic_module_ids has its content path in magic_module_paths, and both id
\* lists are sorted without duplicates, also when the op of a partition was
\* discarded for its target.
C13_IdsMatchPlan ==
    Planned =>
        /\ \A id \in Range(plan.overlay_module_ids) : Some(id) \in PlanLayerIds
        /\ MagicIdsHavePaths
        /\ StrictlySorted(plan.overlay_module_ids)
        /\ StrictlySorted(plan.magic_module_ids)

\* the scanned modules whose default mode is Magic
MagicDefaultIds ==
    {module_list[i].id : i \in {i \in DOMAIN module_list :
        module_list[i].rules.default_mode = "Magic"}}

\* C14 as stated: a module whose default mode is Magic has no lowerdir in
\* any overlay op whatever its path rules, is not in overlay_module_ids,
\* and, if it has a populated candidate-partition directory, has its content
\* path in magic_module_paths and its id in magic_module_ids.
C14_MagicDefaultIsMagicOnly ==
    Planned =>
        \A id \in MagicDefaultIds :
            /\ Some(id) \notin PlanLayerIds
            /\ id \notin Range(plan.overlay_module_ids)
            /\ PopulatedDirs(modules, id, Partitions \cup daemon_config.partitions) # {}
                  => /\ id \in Range(plan.magic_module_ids)
                     /\ \E path \in Range(plan.magic_module_paths) :
                            FileName(path) = Some(id)

(***************************************************************************)
(* Claims about the inventory                                              *)
(***************************************************************************)
\* a directory of the module directory that holds a marker file or bears a
\* reserved name
Excluded(entry) ==
    \/ entry.markers \cap {"disable", "remove", "skip_mount"} # {}
    \/ entry.id \in ReservedIds

\* the ids named in any id list of the plan
PlanIds ==
    Range(plan.overlay_module_ids) \cup Range(plan.magic_module_ids)
        \cup Range(plan.hymo_module_ids)

\* the ids named in any id list of the executor result
ResultIds ==
    IF IsSome(exec_result) THEN OverlayIds \cup HymoIds \cup MagicIds ELSE {}

\* C15: a directory that holds one of the marker files disable, remove or
\* skip_mount, or bears a reserved name, is in no scan result, in no id
\* list of the plan made from that scan and in no id list of the executor
\* result.
C15_ExcludedNeverMounted ==
    \A entry \in modules :
        Excluded(entry) =>
            /\ \A i \in DOMAIN module_list : module_list[i].id # entry.id
            /\ entry.id \notin PlanIds
            /\ entry.id \notin ResultIds

\* a run has mounted a module next to a directory with a marker and one
\* with a reserved name
C15_Witness ==
    /\ IsSome(exec_result)
    /\ ResultIds # {}
    /\ \E entry \in modules : entry.markers # {}
    /\ \E entry \in modules : entry.id \in ReservedIds

\* whether a map of path rules has an entry for a key
HasKey(paths, key) == \E e \in paths : e[1] = key

\* what the two rule files of a returned load call parse to
InternalRules == Unwrap(ParseRules(Unwrap(call.internal_config)))
UserRules == Unwrap(ParseRules(Unwrap(call.user_config)))

\* C16: load always returns rules, the default ones when no file parses;
\* when the in-module file and the user file both parse, the default mode
\* returned is the user file's, and the paths returned are the user's
\* entries together with the in-module entries whose key the user file does
\* not hold.
C16_UserRulesWin ==
    (call.fn = "load" /\ IsSome(ret)) =>
        LET rules == Unwrap(ret)
        IN  /\ rules \in [default_mode : MountModes, paths : PathMaps]
            /\ (~Parses(call.internal_config) /\ ~Parses(call.user_config))
                  => rules = DefaultRules
            /\ (Parses(call.internal_config) /\ Parses(call.user_config))
                  => /\ rules.default_mode = UserRules.default_mode
                     /\ \A e \in RuleKeys \X MountModes :
                            e \in rules.paths <=>
                                \/ e \in UserRules.paths
                                \/ /\ e \in InternalRules.paths
                                   /\ ~HasKey(UserRules.paths, e[1])

\* load has returned for two files that parse, disagree on the default mode
\* and on the mode of a shared key, the in-module file holding one more key
C16_Witness ==
    /\ call.fn = "load"
    /\ IsSome(ret)
    /\ Parses(call.internal_config)
    /\ Parses(call.user_config)
    /\ InternalRules.default_mode # UserRules.default_mode
    /\ \E a \in InternalRules.paths, b \in UserRules.paths :
           a[1] = b[1] /\ a[2] # b[2]
    /\ \E a \in InternalRules.paths : ~HasKey(UserRules.paths, a[1])

(***************************************************************************)
(* Claims about the conflict report                                        *)
(***************************************************************************)
\* the modules that contribute a relative path to an op: those whose
\* lowerdir holds something other than a directory there
Contributors(op, trees, rel) ==
    {extract_id(layer) : layer \in {layer \in Range(op.lowerdirs) :
        trees[layer][rel] \in {"file", "symlink"}}}

\* the positions of a report that name a partition and a relative path
EntriesFor(details, part, rel) ==
    {i \in DOMAIN details :
        details[i].partition = part /\ details[i].relative_path = rel}

\* the report is sorted by (partition, relative_path)
ReportSorted(details) ==
    \A i, j \in DOMAIN details :
        i < j => ~ConflictLess(details[j], details[i])

\* the report names only paths of the ops of the plan
ReportWithinPlan(details, p) ==
    \A i \in DOMAIN details :
        \E op \in Range(p.overlay_ops) :
            op.partition_name = details[i].partition

\* the call leaves the plan as it was and can return one report only
ReportDeterministic ==
    /\ Unwrap(ret).plan = call.plan
    /\ Cardinality(analyze_conflicts(call.plan, call.trees)) = 1

\* C17 as stated: the report holds exactly one entry for each partition and
\* relative path that more than one module contributes among the lowerdirs
\* of that partition's op, and none for any other path; it is sorted by
\* (partition, relative_path); the plan is unchanged and the report is the
\* same on every call.
C17_ConflictReportExact ==
    (call.fn = "analyze_conflicts" /\ IsSome(ret)) =>
        LET details == Unwrap(ret).details
        IN  /\ \A op \in Range(call.plan.overlay_ops) : \A rel \in RelPaths :
                   Cardinality(EntriesFor(details, op.partition_name, rel))
                     = IF Cardinality(Contributors(op, call.trees, rel)) > 1
                       THEN 1 ELSE 0
            /\ ReportWithinPlan(details, call.plan)
            /\ ReportSorted(details)
            /\ ReportDeterministic

(***************************************************************************)
(* Claims about the magic mount                                            *)
(***************************************************************************)
\* C18 as stated: no partition that the success map records as served for
\* a module by a hymo injection or an overlay mount is collected into the
\* magic-mount tree of Phase 4 for that module.
C18_ServedPartitionsNotMagic ==
    exec.magic_tree \cap exec.global_success_map = {}

\* do_magic_mount has returned
Mounted == call.fn = "do_magic_mount" /\ IsSome(ret)

\* the host entry at the place of a child of the node of the call
HostAt(node) == call.host[<<call.current.name, node.name>>]

\* a child that cannot be mounted on the host as it is: a Symlink, a
\* Whiteout whose host path exists, or a file or directory where the host
\* has nothing or an entry of another type
RequiresTmpfs(node) ==
    \/ node.file_type = "Symlink"
    \/ node.file_type = "Whiteout"
          /\ HostAt(node) \in {"RegularFile", "Directory", "Symlink"}
    \/ node.file_type \in {"RegularFile", "Directory"}
          /\ HostAt(node) # node.file_type

\* whether a path lies in the subtree of a child
InSubtree(path, node) ==
    Len(path) >= 2 /\ SubSeq(path, 1, 2) = <<call.current.name, node.name>>

PlainDirectory ==
    /\ Mounted
    /\ ~call.has_tmpfs
    /\ ~(call.current.replace /\ call.current.module_path # None)

\* C20 as stated: for such a node a tmpfs is created exactly when the node
\* has a module_path and some child is a Symlink, a Whiteout whose host
\* path exists, or a child other than a Symlink where the host has an
\* entry of a type that differs from the child's.
C20_TmpfsIffTypeDiffers ==
    PlainDirectory =>
        (Unwrap(ret).create_tmpfs
            <=> /\ call.current.module_path # None
                /\ \E node \in call.current.children :
                       \/ node.file_type = "Symlink"
                       \/ node.file_type = "Whiteout" /\ Exists(HostAt(node))
                       \/ /\ node.file_type # "Symlink"
                          /\ IsSome(HostFileType(HostAt(node)))
                          /\ Unwrap(HostFileType(HostAt(node))) # node.file_type)

\* C20, amended: for such a node a tmpfs is created exactly when the node
\* has a module_path and some child is a Symlink, a Whiteout whose host
\* path exists, or a RegularFile or Directory where the host has nothing
\* or an entry of another type.
C20_TmpfsIffRequired ==
    PlainDirectory =>
        (Unwrap(ret).create_tmpfs
            <=> /\ call.current.module_path # None
                /\ \E node \in call.current.children : RequiresTmpfs(node))

\* a tmpfs was created for a node whose only child in need is a file the
\* host does not have
C20_Witness ==
    /\ PlainDirectory
    /\ Unwrap(ret).create_tmpfs
    /\ \E node \in call.current.children :
           /\ node.file_type = "RegularFile"
           /\ HostAt(node) = "absent"
           /\ \A other \in call.current.children \ {node} :
                  ~RequiresTmpfs(other)

(***************************************************************************)
(* try_umount.rs: send_unmountable and ksu_nuke_sysfs called from several  *)
(* threads.  DRIVER_FD is a OnceLock, SENT_UNMOUNTS a set behind a Mutex   *)
(* whose guard lives to the end of send_unmountable.                       *)
(***************************************************************************)
\* Path::to_string_lossy: a byte that is no UTF-8 becomes U+FFFD
ToStringLossy(target) ==
    [i \in 1..Len(target) |-> IF target[i] = INVALID THEN REPLACEMENT ELSE target[i]]

\* the paths a caller passes: the empty path, plain paths, a path holding a
\* NUL byte and a path that is no UTF-8
Targets ==
    {<<>>} \cup {<<i>> : i \in 1..MaxTargets} \cup {<<1, NUL>>, <<INVALID>>}

\* CString::new(..) is Ok: no interior NUL byte
CStringOk(text) == \A i \in 1..Len(text) : text[i] # NUL

\* what the reboot syscall of grab_fd leaves in fd: -1, or a descriptor
GrabResults == {-1, 3}

\* set.contains(&path_str), without the guarded set
DeduplicatedNever(set, path_str) == FALSE

\* set.contains(&path_str)
Deduplicated(set, path_str) == path_str \in set

\* the thread t moves to the position
At(t, position) == [thread EXCEPT ![t].pc = position]

\* the thread t returns from its call
Return(t) == [thread EXCEPT ![t] = IdleThread]

\* the guard of SENT_UNMOUNTS is dropped
Unlocked == [SENT_UNMOUNTS EXCEPT !.lock = 0]

\* a thread calls send_unmountable(target) or ksu_nuke_sysfs(target)
enter ==
    /\ ioctls.calls < MaxCalls
    /\ \E t \in Threads, fn \in {"send_unmountable", "ksu_nuke_sysfs"}, target \in Targets :
        /\ thread[t].pc = "idle"
        /\ thread' = [thread EXCEPT ![t] = [pc |-> "entry", fn |-> fn,
                                            target |-> target, fd |-> 0]]
    /\ ioctls' = [ioctls EXCEPT !.calls = @ + 1]
    /\ UNCHANGED <<DRIVER_FD, SENT_UNMOUNTS>>
    /\ UNCHANGED <<gvars, rvars, fvars>>

\* send_unmountable, up to cache.lock(): the empty path returns Ok at once
send_unmountable_lock ==
    /\ \E t \in Threads :
        /\ thread[t].pc = "entry"
        /\ thread[t].fn = "send_unmountable"
        /\ IF ToStringLossy(thread[t].target) = <<>>
           THEN /\ thread' = Return(t)
                /\ UNCHANGED SENT_UNMOUNTS
           ELSE /\ SENT_UNMOUNTS.lock = 0
                /\ SENT_UNMOUNTS' = [SENT_UNMOUNTS EXCEPT !.lock = t]
                /\ thread' = At(t, "locked")
    /\ UNCHANGED <<DRIVER_FD, ioctls>>
    /\ UNCHANGED <<gvars, rvars, fvars>>

\* send_unmountable under the lock: the dedup test, the insert, CString::new
send_unmountable_dedup ==
    /\ \E t \in Threads :
        LET path_str == ToStringLossy(thread[t].target)
        IN  /\ thread[t].pc = "locked"
            /\ IF Deduplicated(SENT_UNMOUNTS.set, path_str)
               THEN /\ thread' = At(t, "skipped")
                    /\ UNCHANGED SENT_UNMOUNTS
               ELSE IF CStringOk(path_str)
               THEN /\ SENT_UNMOUNTS' = [SENT_UNMOUNTS EXCEPT
                                            !.set = @ \cup {path_str}]
                    /\ thread' = At(t, "get_or_init")
               ELSE \* CString::new(path_str)? returns the error
                    /\ SENT_UNMOUNTS' = [set |-> SENT_UNMOUNTS.set \cup {path_str},
                                         lock |-> 0]
                    /\ thread' = Return(t)
    /\ UNCHANGED <<DRIVER_FD, ioctls>>
    /\ UNCHANGED <<gvars, rvars, fvars>>

\* send_unmountable returns Ok for a path already in the set
send_unmountable_skip ==
    /\ \E t \in Threads :
        /\ thread[t].pc = "skipped"
        /\ thread' = Return(t)
    /\ SENT_UNMOUNTS' = Unlocked
    /\ UNCHANGED <<DRIVER_FD, ioctls>>
    /\ UNCHANGED <<gvars, rvars, fvars>>

\* ksu_nuke_sysfs, up to DRIVER_FD.get_or_init: CString::new(target)?
ksu_nuke_sysfs_cstring ==
    /\ \E t \in Threads :
        /\ thread[t].pc = "entry"
        /\ thread[t].fn = "ksu_nuke_sysfs"
        /\ thread' = IF CStringOk(thread[t].target) THEN At(t, "get_or_init")
                     ELSE Return(t)
    /\ UNCHANGED <<DRIVER_FD, SENT_UNMOUNTS, ioctls>>
    /\ UNCHANGED <<gvars, rvars, fvars>>

\* DRIVER_FD.get_or_init(grab_fd): the value when there is one; the first
\* thread to come starts the initialiser and the others wait for it
get_or_init ==
    /\ \E t \in Threads :
        /\ thread[t].pc = "get_or_init"
        /\ DRIVER_FD.state # "running"
        /\ IF DRIVER_FD.state = "complete"
           THEN /\ thread' = [thread EXCEPT ![t].pc = "have_fd",
                                            ![t].fd = DRIVER_FD.value]
                /\ UNCHANGED DRIVER_FD
           ELSE /\ DRIVER_FD' = [DRIVER_FD EXCEPT !.state = "running", !.by = t]
                /\ thread' = At(t, "grab_fd")
    /\ UNCHANGED <<SENT_UNMOUNTS, ioctls>>
    /\ UNCHANGED <<gvars, rvars, fvars>>

\* grab_fd: the reboot syscall, whose answer is stored whatever it is
grab_fd ==
    /\ \E t \in Threads, fd \in GrabResults :
        /\ thread[t].pc = "grab_fd"
        /\ DRIVER_FD' = [state |-> "complete", value |-> fd, by |-> 0]
        /\ thread' = [thread EXCEPT ![t].pc = "have_fd", ![t].fd = fd]
    /\ ioctls' = [ioctls EXCEPT !.grab_fd = @ + 1]
    /\ UNCHANGED SENT_UNMOUNTS
    /\ UNCHANGED <<gvars, rvars, fvars>>

\* send_unmountable with the fd: Ok without a driver, else the ioctl
\* KSU_IOCTL_ADD_TRY_UMOUNT; the guard is dropped on return
send_unmountable_ioctl ==
    /\ \E t \in Threads :
        /\ thread[t].pc = "have_fd"
        /\ thread[t].fn = "send_unmountable"
        /\ ioctls' = IF thread[t].fd < 0 THEN ioctls
                     ELSE [ioctls EXCEPT !.add_try_umount =
                              Append(@, ToStringLossy(thread[t].target))]
        /\ thread' = Return(t)
    /\ SENT_UNMOUNTS' = Unlocked
    /\ UNCHANGED DRIVER_FD
    /\ UNCHANGED <<gvars, rvars, fvars>>

\* ksu_nuke_sysfs with the fd: bail without a driver, else the ioctl
\* KSU_IOCTL_NUKE_EXT4_SYSFS
ksu_nuke_sysfs_ioctl ==
    /\ \E t \in Threads :
        /\ thread[t].pc = "have_fd"
        /\ thread[t].fn = "ksu_nuke_sysfs"
        /\ ioctls' = IF thread[t].fd < 0 THEN ioctls
                     ELSE [ioctls EXCEPT !.nuke = @ + 1]
        /\ thread' = Return(t)
    /\ UNCHANGED <<DRIVER_FD, SENT_UNMOUNTS>>
    /\ UNCHANGED <<gvars, rvars, fvars>>

UmountInit ==
    /\ Idle
    /\ call = NoCall
    /\ ret = None

UmountNext ==
    \/ enter
    \/ send_unmountable_lock
    \/ send_unmountable_dedup
    \/ send_unmountable_skip
    \/ ksu_nuke_sysfs_cstring
    \/ get_or_init
    \/ grab_fd
    \/ send_unmountable_ioctl
    \/ ksu_nuke_sysfs_ioctl

SpecUmount == UmountInit /\ [][UmountNext]_vars

\* the add-try-umount requests issued for the path
Requests(path_str) ==
    Cardinality({i \in 1..Len(ioctls.add_try_umount) :
                    ioctls.add_try_umount[i] = path_str})

\* C21: under any interleaving of send_unmountable and ksu_nuke_sysfs calls
\* from any number of threads, the driver fd is acquired at most once per
\* process (also when the acquisition fails), and the add-try-umount request
\* is issued at most once for each distinct path.
C21_OneOpenOneRequestPerPath ==
    /\ ioctls.grab_fd <= 1
    /\ \A target \in Targets : Requests(ToStringLossy(target)) <= 1

\* a thread finds in the set a path whose request another call has issued,
\* after the one acquisition of the fd
C21_Witness ==
    /\ ioctls.grab_fd = 1
    /\ \E t \in Threads :
        /\ thread[t].pc = "skipped"
        /\ Requests(ToStringLossy(thread[t].target)) = 1
    /\ \E u \in Threads : thread[u].fn = "ksu_nuke_sysfs" /\ thread[u].pc = "have_fd"

(***************************************************************************)
(* sync::perform_sync on a module list and a storage root.  A destination  *)
(* is None when missing, else Some of what it holds: its module.prop and   *)
(* whether it holds a file the source does not have.                       *)
(***************************************************************************)
\* the bytes of a module.prop file; None is a missing file
PropBytes == {"prop_a", "prop_b"}
Props == {None} \cup {Some(b) : b \in PropBytes}

\* what target_base.join(id) can be
Destinations == {None} \cup {Some(d) : d \in [prop : Props, stale : BOOLEAN]}

\* should_sync(src, dst); a module.prop that cannot be read is in unreadable
should_sync(src_prop, dst, unreadable) ==
    IF dst = None THEN TRUE
    ELSE IF src_prop = None \/ Unwrap(dst).prop = None THEN TRUE
    ELSE IF unreadable THEN TRUE
    ELSE src_prop # Unwrap(dst).prop

\* has_content: a builtin partition directory of the source holds an entry
has_content(module) == module.parts \cap Partitions # {}

\* the test of sync.rs:34
syncs(module, dst, unreadable) ==
    has_content(module) /\ should_sync(module.prop, dst, unreadable)

\* fs::remove_dir_all(&dst) when dst exists: on failure the directory stays
Cleaned(dst, remove_fails) == IF remove_fails THEN dst ELSE None

\* utils::sync_dir(&module.source_path, &dst) that succeeds: the files of
\* the source are written over what the destination holds
Copied(module, cleaned) ==
    Some([prop |-> IF module.prop # None \/ cleaned = None THEN module.prop
                   ELSE Unwrap(cleaned).prop,
          stale |-> cleaned # None /\ Unwrap(cleaned).stale])

\* utils::sync_dir that fails: the destination could not be created, or it
\* holds a part of the source
Partial(module, cleaned) ==
    {cleaned,
     Some([prop |-> IF cleaned = None THEN None ELSE Unwrap(cleaned).prop,
           stale |-> cleaned # None /\ Unwrap(cleaned).stale])}

\* the closure of modules.par_iter().for_each: the destinations it can leave
SyncModule(module, dst, env_) ==
    IF module.default_mode = "Magic" THEN {dst}
    ELSE IF syncs(module, dst, module.id \in env_.unreadable)
    THEN LET cleaned == Cleaned(dst, module.id \in env_.remove_fails)
         IN  IF module.id \in env_.copy_fails THEN Partial(module, cleaned)
             ELSE {Copied(module, cleaned)}
    ELSE {dst}

\* prune_orphaned_modules: what is left of an entry of the storage root
Pruned(id, dst, active_ids, env_) ==
    IF id \in ReservedIds \/ id \in active_ids \/ id \in env_.remove_fails
    THEN dst ELSE None

\* perform_sync(modules, target_base): the results it can return
sync_results(list, stored, env_) ==
    IF env_.read_dir_fails /\ \E id \in DOMAIN stored : stored[id] # None
    THEN {[ok |-> FALSE, storage |-> stored]}
    ELSE LET active_ids == {m.id : m \in list}
             pruned == [id \in DOMAIN stored |->
                           Pruned(id, stored[id], active_ids, env_)]
         IN  {[ok |-> TRUE, storage |-> after] :
                after \in {f \in [DOMAIN stored -> Destinations] :
                    \A id \in DOMAIN stored :
                        IF id \in active_ids
                        THEN f[id] \in SyncModule(
                                 CHOOSE m \in list : m.id = id,
                                 pruned[id], env_)
                        ELSE f[id] = pruned[id]}}

\* a scanned module: default mode, populated directories, module.prop
SyncModules(ids) ==
    {{[id |-> i, default_mode |-> f[i].default_mode, parts |-> f[i].parts,
       prop |-> f[i].prop] : i \in ids} :
        f \in [ids -> [default_mode : {"Overlay", "Magic"},
                       parts : {{}, {"system"}}, prop : Props]]}

\* what fails during the call
SyncEnvs(ids) ==
    [read_dir_fails : {FALSE}, remove_fails : SUBSET ids,
     copy_fails : SUBSET ids, unreadable : {{}}]
    \cup [read_dir_fails : {FALSE}, remove_fails : {{}}, copy_fails : {{}},
          unreadable : SUBSET ids]
    \cup [read_dir_fails : {TRUE}, remove_fails : {{}}, copy_fails : {{}},
          unreadable : {{}}]

\* the storage root before the call: any destination for a module of the
\* list, and a directory or nothing under any other name
Storages(ids) ==
    {f \in [0..MaxModules -> Destinations] :
        \A id \in (0..MaxModules) \ ids :
            f[id] \in {None, Some([prop |-> None, stale |-> FALSE])}}

SyncCalls(ids) ==
    [fn : {"perform_sync"}, modules : SyncModules(ids),
     storage : Storages(ids), env : SyncEnvs(ids)]

\* the call perform_sync(modules, target_base) returns
sync_perform_sync ==
    /\ call.fn = "perform_sync"
    /\ ret = None
    /\ \E r \in sync_results(call.modules, call.storage, call.env) :
        ret' = Some(r)
    /\ UNCHANGED call
    /\ UNCHANGED <<gvars, rvars, tvars>>

SyncInit ==
    /\ Idle
    /\ \E ids \in SUBSET (1..MaxModules) : call \in SyncCalls(ids)
    /\ ret = None

SyncNext == sync_perform_sync

SpecSync == SyncInit /\ [][SyncNext]_vars

\* the module.prop of source and destination differ, a missing or unreadable
\* file differing from any other
PropDiffers(module, dst) ==
    \/ module.prop = None
    \/ Unwrap(dst).prop = None
    \/ module.id \in call.env.unreadable
    \/ module.prop # Unwrap(dst).prop

\* the module needs a re-sync: destination missing or module.prop differs
NeedsSync(module) ==
    \/ call.storage[module.id] = None
    \/ PropDiffers(module, call.storage[module.id])

\* nothing fails while this module is synced
Unhindered(module) ==
    /\ ~call.env.read_dir_fails
    /\ module.id \notin call.env.remove_fails \cup call.env.copy_fails

\* a fresh copy of the source and nothing else
FreshCopy(module) == Some([prop |-> module.prop, stale |-> FALSE])

\* C22 as stated: perform_sync never copies a module whose default_mode is
\* Magic; any other module is re-synced when its destination is missing or
\* the bytes of module.prop differ, and its destination is left untouched
\* otherwise; on a re-sync the destination is removed entirely before the
\* copy; a failure while syncing one module does not keep the other modules
\* from being synced, and perform_sync still returns Ok.
C22_SyncPolicy ==
    (call.fn = "perform_sync" /\ ret # None /\ ~call.env.read_dir_fails) =>
        /\ Unwrap(ret).ok
        /\ \A module \in call.modules :
            LET before == call.storage[module.id]
                after == Unwrap(ret).storage[module.id]
            IN  /\ module.default_mode = "Magic" => after = before
                /\ (module.default_mode # "Magic" /\ Unhindered(module)) =>
                       after = IF NeedsSync(module) THEN FreshCopy(module)
                               ELSE before

(***************************************************************************)
(* granary::restore_silo on its own, with the errors of its file           *)
(* operations: the silo file, the config file and the state file before    *)
(* the call, and which reads and writes fail.                              *)
(***************************************************************************)
\* what a failed fs::write can leave of a file that it had opened
PartialConfig == [partial |-> TRUE]
PartialState == "partial"

\* fs::write(path, text): the contents the file can have afterwards
WriteFile(before, text, fails) ==
    IF fails THEN {before, Some(PartialConfig)} ELSE {Some(text)}

\* fs::write(STATE_PATH, state)
WriteState(before, text, fails) ==
    IF fails THEN {before, Some(PartialState)} ELSE {Some(text)}

\* restore_silo(id): the results it can return, with the files it leaves
restore_results(file, config_before, state_before, env_) ==
    IF file = None \/ env_.read_fails \/ FromJson(Unwrap(file)) = None
    THEN {[ok |-> FALSE, read |-> FALSE, state_attempted |-> FALSE,
           config_file |-> config_before, state_file |-> state_before]}
    ELSE LET silo == Unwrap(FromJson(Unwrap(file)))
         IN  IF env_.config_write_fails
             THEN {[ok |-> FALSE, read |-> TRUE, state_attempted |-> FALSE,
                    config_file |-> c, state_file |-> state_before] :
                      c \in WriteFile(config_before, RestoredConfig(silo), TRUE)}
             ELSE IF IsSome(silo.raw_state)
             THEN {[ok |-> ~env_.state_write_fails, read |-> TRUE,
                    state_attempted |-> TRUE,
                    config_file |-> Some(RestoredConfig(silo)),
                    state_file |-> s] :
                      s \in WriteState(state_before, Unwrap(silo.raw_state),
                                       env_.state_write_fails)}
             ELSE {[ok |-> TRUE, read |-> TRUE, state_attempted |-> TRUE,
                    config_file |-> Some(RestoredConfig(silo)),
                    state_file |-> state_before]}

\* the silo files a call can find: none, one that does not parse, or a silo
\* with or without raw texts
SiloFiles ==
    {None}
    \cup {Some(ToJson(MkSilo(0, "auto", c, rc, rs))) :
            c \in Configs,
            rc \in {None} \cup {Some(t) : t \in ConfigTexts},
            rs \in {None} \cup {Some(t) : t \in StateTexts}}
    \cup {Some(Damaged(ToJson(MkSilo(0, "auto", c, None, None)))) : c \in Configs}

RestoreEnvs ==
    [read_fails : BOOLEAN, config_write_fails : BOOLEAN,
     state_write_fails : BOOLEAN]

\* the call restore_silo(id) returns
granary_restore_silo ==
    /\ call.fn = "restore_silo"
    /\ ret = None
    /\ \E r \in restore_results(call.file, call.config_file, call.state_file,
                                call.env) : ret' = Some(r)
    /\ UNCHANGED call
    /\ UNCHANGED <<gvars, rvars, tvars>>

RestoreInit ==
    /\ Idle
    /\ call \in [fn : {"restore_silo"}, file : SiloFiles,
                 config_file : {None} \cup {Some(t) : t \in UserConfigTexts},
                 state_file : {None} \cup {Some(t) : t \in StateTexts},
                 env : RestoreEnvs]
    /\ ret = None

RestoreNext == granary_restore_silo

SpecRestore == RestoreInit /\ [][RestoreNext]_vars

\* C23 as stated: restore_silo writes the silo's raw config text to the
\* config file when raw_config is present and the re-serialised
\* config_snapshot otherwise, and in every case in which the silo was read it
\* goes on to attempt the state file (written when raw_state is present);
\* restoring a silo id that does not exist returns an error and leaves the
\* config and state files unchanged.
C23_RestoreWritesBoth ==
    (call.fn = "restore_silo" /\ ret # None) =>
        LET r == Unwrap(ret)
        IN  /\ r.read => r.state_attempted
            /\ (r.read /\ r.ok) =>
                LET silo == Unwrap(FromJson(Unwrap(call.file)))
                IN  /\ r.config_file =
                           Some(IF IsSome(silo.raw_config)
                                THEN Unwrap(silo.raw_config)
                                ELSE ToToml(silo.config_snapshot))
                    /\ r.state_file = IF IsSome(silo.raw_state)
                                      THEN silo.raw_state
                                      ELSE call.state_file
            /\ call.file = None =>
                /\ ~r.ok
                /\ r.config_file = call.config_file
                /\ r.state_file = call.state_file

(***************************************************************************)
(* Node::collect_module_files and add_module_file (mount/node.rs) over the *)
(* system directories of the modules of the magic queue, in queue order.   *)
(* A system directory holds at most one entry, named 1; when that is a     *)
(* directory it may hold the marker file .replace and one entry named 2.   *)
(***************************************************************************)
\* what a module holds at a path: nothing, a regular file, a directory, a
\* symlink, or a character device with rdev 0
FsKinds == {"absent", "file", "dir", "symlink", "whiteout"}

\* the system directories a module can have
SystemShapes ==
    {s \in [top : FsKinds, replace : BOOLEAN, child : FsKinds] :
        s.top # "dir" => (~s.replace /\ s.child = "absent")}

\* NodeFileType::from(file_type), and Whiteout for a whiteout
NodeTypeOf(kind) ==
    IF kind = "whiteout" THEN "Whiteout"
    ELSE IF kind = "dir" THEN "Directory"
    ELSE IF kind = "symlink" THEN "Symlink"
    ELSE "RegularFile"

\* ModuleFile::new(root, relative)
ModuleFile(root, relative, kind, has_marker) ==
    [relative_path |-> relative, real_path |-> root \o relative,
     file_type |-> kind, is_whiteout |-> kind = "whiteout",
     is_replace |-> kind = "dir" /\ has_marker,
     is_replace_file |-> relative[Len(relative)] = REPLACE_DIR_FILE_NAME]

\* module_path.join("system") of the module numbered id
ModuleSystem(id) == Append(Append(ModuleDir, id), "system")

\* the entries WalkDir::new(root).min_depth(1) yields, a directory before
\* what it holds
Walk(id, shape) ==
    LET root == ModuleSystem(id)
    IN  (IF shape.top = "absent" THEN <<>>
         ELSE <<ModuleFile(root, <<1>>, shape.top, shape.replace)>>)
        \o (IF shape.replace
            THEN <<ModuleFile(root, <<1, REPLACE_DIR_FILE_NAME>>, "file", FALSE)>>
            ELSE <<>>)
        \o (IF shape.child = "absent" THEN <<>>
            ELSE <<ModuleFile(root, <<1, 2>>, shape.child, FALSE)>>)

\* the child of the node that bears the name, or the node or_insert_with makes
ChildOrInsert(node, name, file_type) ==
    IF \E c \in node.children : c.name = name
    THEN CHOOSE c \in node.children : c.name = name
    ELSE Node(name, file_type, None, FALSE, {})

\* faulty variant: a node that has a module path keeps it, and its type
UpdatedFirstWins(node, module_file) ==
    LET typed == IF node.module_path # None THEN node
                 ELSE IF ~module_file.is_whiteout
                 THEN [node EXCEPT !.module_path = Some(module_file.real_path),
                                   !.file_type = NodeTypeOf(module_file.file_type)]
                 ELSE [node EXCEPT !.file_type = "Whiteout"]
    IN  IF module_file.is_replace THEN [typed EXCEPT !.replace = TRUE] ELSE typed

\* add_module_file, last component: what the entry does to the node
Updated(node, module_file) ==
    LET typed == IF ~module_file.is_whiteout
                 THEN [node EXCEPT !.module_path = Some(module_file.real_path),
                                   !.file_type = NodeTypeOf(module_file.file_type)]
                 ELSE [node EXCEPT !.file_type = "Whiteout"]
    IN  IF module_file.is_replace THEN [typed EXCEPT !.replace = TRUE] ELSE typed

\* add_module_file, from the component numbered i on
RECURSIVE AddBelow(_, _, _)
AddBelow(node, module_file, i) ==
    LET name == module_file.relative_path[i]
        is_last == i = Len(module_file.relative_path)
        child == ChildOrInsert(node, name,
                     IF is_last THEN NodeTypeOf(module_file.file_type)
                     ELSE "Directory")
        others == {c \in node.children : c.name # name}
    IN  [node EXCEPT !.children = others \cup
            {IF is_last THEN Updated(child, module_file)
             ELSE AddBelow(child, module_file, i + 1)}]

add_module_file(node, module_file) == AddBelow(node, module_file, 1)

\* Node::collect_module_files(root) on the entries of the walk
RECURSIVE CollectWalk(_, _)
CollectWalk(node, walk) ==
    IF walk = <<>> THEN node
    ELSE CollectWalk(IF Head(walk).is_replace_file THEN node
                     ELSE add_module_file(node, Head(walk)),
                     Tail(walk))

\* the loop of collect_module_files over the content paths, from Node::new_root
RECURSIVE CollectAll(_, _)
CollectAll(node, queue) ==
    IF queue = <<>> THEN node
    ELSE CollectAll(CollectWalk(node, Walk(Head(queue).id, Head(queue).shape)),
                    Tail(queue))

new_root(name) == Node(name, "Directory", None, FALSE, {})

\* the magic queues: modules 1..n in the order they are processed
RECURSIVE Queues(_)
Queues(n) ==
    IF n = 0 THEN {<<>>}
    ELSE Queues(n - 1) \cup
         {Append(q, [id |-> n, shape |-> s]) :
            q \in {q \in Queues(n - 1) : Len(q) = n - 1}, s \in SystemShapes}

\* the host under /system at the two paths
CollectHosts == [{<<0, 1>>, <<0, 1, 2>>} -> {"absent", "Directory"}]

\* collect_module_files returns the tree, and do_magic_mount realises it
Node_collect_module_files ==
    /\ call.fn = "collect_module_files"
    /\ ret = None
    /\ LET system == CollectAll(new_root(0), call.queue)
       IN  \E order \in Perms(system.children) :
             ret' = Some([system |-> system,
                          realised |-> Realised(order, <<>>, system, FALSE,
                                                call.host)])
    /\ UNCHANGED call
    /\ UNCHANGED <<gvars, rvars, tvars>>

CollectInit ==
    /\ Idle
    /\ call \in [fn : {"collect_module_files"}, queue : Queues(MaxModules),
                 host : CollectHosts]
    /\ ret = None

CollectNext == Node_collect_module_files

SpecCollect == CollectInit /\ [][CollectNext]_vars

\* the kind the module of a queue entry holds at the relative path
KindAt(entry, relative) ==
    IF relative = <<1>> THEN entry.shape.top ELSE entry.shape.child

\* the positions of the queue whose module provides the path, and among
\* them those that provide something other than a whiteout
Providers(relative) ==
    {i \in DOMAIN call.queue : KindAt(call.queue[i], relative) # "absent"}
Sources(relative) ==
    {i \in Providers(relative) : KindAt(call.queue[i], relative) # "whiteout"}

Last(positions) == CHOOSE i \in positions : \A j \in positions : j <= i

\* the node of the collected tree at the relative path, in a set
RECURSIVE NodesAt(_, _)
NodesAt(node, relative) ==
    IF relative = <<>> THEN {node}
    ELSE UNION {NodesAt(c, Tail(relative)) :
                  c \in {c \in node.children : c.name = Head(relative)}}

\* every node of the tree
RECURSIVE AllNodes(_)
AllNodes(node) == {node} \cup UNION {AllNodes(c) : c \in node.children}

\* the module path of the last module that provides the path
LastModulePath(relative) ==
    LET entry == call.queue[Last(Providers(relative))]
    IN  IF KindAt(entry, relative) = "whiteout" THEN None
        ELSE Some(ModuleSystem(entry.id) \o relative)

\* the module path of the last module that provides there something other
\* than a whiteout
LastSourcePath(relative) ==
    IF Sources(relative) = {} THEN None
    ELSE Some(ModuleSystem(call.queue[Last(Sources(relative))].id) \o relative)

\* the file type is that of the last provider
TypeIsLast(relative) ==
    \A node \in NodesAt(Unwrap(ret).system, relative) :
        node.file_type =
            NodeTypeOf(KindAt(call.queue[Last(Providers(relative))], relative))

\* nothing below a node that is no Directory is realised
NoTraversalBelowNonDirectory ==
    \A relative \in {<<1>>, <<1, 2>>} :
        \A node \in NodesAt(Unwrap(ret).system, relative) :
            node.file_type # "Directory" =>
                \A path \in Unwrap(ret).realised :
                    ~(Len(path) > Len(relative) + 1
                      /\ SubSeq(path, 2, Len(relative) + 1) = relative)

\* no node stands for a .replace file, and the node of a directory has
\* replace set when a module holds the marker in that directory
ReplaceMarkers ==
    /\ \A node \in AllNodes(Unwrap(ret).system) :
           node.name # REPLACE_DIR_FILE_NAME
    /\ \A node \in NodesAt(Unwrap(ret).system, <<1>>) :
           node.replace = \E i \in DOMAIN call.queue : call.queue[i].shape.replace

Collected == call.fn = "collect_module_files" /\ ret # None

\* C24 as stated: when several modules provide an entry at the same
\* relative path, the node's module_path and file_type are those of the
\* module processed last; children under a node whose final type is not
\* Directory are never traversed during realisation; a .replace marker file
\* is never inserted as a child node and sets replace on its directory's node.
C24_LastWins ==
    Collected =>
        /\ \A relative \in {<<1>>, <<1, 2>>} :
            Providers(relative) # {} =>
                /\ Cardinality(NodesAt(Unwrap(ret).system, relative)) = 1
                /\ TypeIsLast(relative)
                /\ \A node \in NodesAt(Unwrap(ret).system, relative) :
                       node.module_path = LastModulePath(relative)
        /\ NoTraversalBelowNonDirectory
        /\ ReplaceMarkers

\* C24, amended: the node's file_type is that of the module processed last,
\* and its module_path is that of the last module whose entry at the path is
\* not a whiteout (none when every entry there is a whiteout); children
\* under a node whose final type is not Directory are never traversed during
\* realisation; a .replace marker file is never inserted as a child node and
\* sets replace on its directory's node.
C24_LastSourceWins ==
    Collected =>
        /\ \A relative \in {<<1>>, <<1, 2>>} :
            Providers(relative) # {} =>
                /\ Cardinality(NodesAt(Unwrap(ret).system, relative)) = 1
                /\ TypeIsLast(relative)
                /\ \A node \in NodesAt(Unwrap(ret).system, relative) :
                       node.module_path = LastSourcePath(relative)
        /\ NoTraversalBelowNonDirectory
        /\ ReplaceMarkers

\* two modules provide the entry 1, the first as a replace directory that
\* holds an entry, the last as something that is no directory: the node
\* keeps the child and the flag, and the child is not realised
C24_Witness ==
    /\ Collected
    /\ Cardinality(Providers(<<1>>)) >= 2
    /\ \E node \in NodesAt(Unwrap(ret).system, <<1>>) :
        /\ node.file_type \in {"RegularFile", "Whiteout"}
        /\ node.children # {}
        /\ node.replace
        /\ node.module_path # None
    /\ <<0, 1>> \in Unwrap(ret).realised

(***************************************************************************)
(* magic_mount::mount_partitions: the scratch tmpfs around do_magic_mount. *)
(* A result holds what the function returned, the operations it performed  *)
(* in order, and whether the scratch tmpfs is still mounted on return.     *)
(***************************************************************************)
\* what collect_module_files returned: an error, no file, or a root node
CollectOutcomes == {"err", "none", "root"}

\* which operations of the call fail
MountEnvs ==
    [ensure_dir_fails : BOOLEAN, mount_fails : BOOLEAN,
     private_fails : BOOLEAN, realise_fails : BOOLEAN,
     unmount_fails : BOOLEAN]

Returned(result, trace, mounted) ==
    [result |-> result, trace |-> trace, mounted |-> mounted]

\* mount_partitions(tmp_path, module_paths, mount_source, extra_partitions)
mount_partitions(collected, env_) ==
    IF collected = "err" THEN Returned("Err(collect)", <<>>, FALSE)
    ELSE IF collected = "none" THEN Returned("Ok", <<>>, FALSE)
    ELSE IF env_.ensure_dir_fails
    THEN Returned("Err(ensure_dir_exists)", <<"ensure_dir_exists">>, FALSE)
    ELSE IF env_.mount_fails
    THEN Returned("Err(mount tmp)", <<"ensure_dir_exists", "mount">>, FALSE)
    ELSE IF env_.private_fails
    THEN Returned("Err(make tmp private)",
                  <<"ensure_dir_exists", "mount", "mount_change">>, TRUE)
    ELSE Returned(IF env_.realise_fails THEN "Err(do_magic_mount)" ELSE "Ok",
                  <<"ensure_dir_exists", "mount", "mount_change",
                    "do_magic_mount", "unmount", "remove_dir">>,
                  env_.unmount_fails)

\* the call mount_partitions(..) returns
magic_mount_partitions ==
    /\ call.fn = "mount_partitions"
    /\ ret = None
    /\ ret' = Some(mount_partitions(call.collected, call.env))
    /\ UNCHANGED call
    /\ UNCHANGED <<gvars, rvars, tvars>>

PartitionsInit ==
    /\ Idle
    /\ call \in [fn : {"mount_partitions"}, collected : CollectOutcomes,
                 env : MountEnvs]
    /\ ret = None

PartitionsNext == magic_mount_partitions

SpecPartitions == PartitionsInit /\ [][PartitionsNext]_vars

\* the scratch tmpfs was mounted during the call
TmpfsMounted ==
    /\ call.fn = "mount_partitions"
    /\ ret # None
    /\ call.collected = "root"
    /\ ~call.env.ensure_dir_fails
    /\ ~call.env.mount_fails

\* C25 as stated: on every path through mount_partitions after the scratch
\* tmpfs has been mounted (realisation succeeding, realisation failing, or
\* making the mount private failing) the scratch tmpfs is detached before
\* the function returns, and the realisation error, if any, is what the
\* function returns.
C25_ScratchAlwaysDetached ==
    (TmpfsMounted /\ ~call.env.unmount_fails) =>
        /\ \E i \in DOMAIN Unwrap(ret).trace : Unwrap(ret).trace[i] = "unmount"
        /\ ~Unwrap(ret).mounted
        /\ \/ call.env.private_fails
           \/ Unwrap(ret).result = IF call.env.realise_fails
                                   THEN "Err(do_magic_mount)" ELSE "Ok"

(***************************************************************************)
(* Claims about the determinism of the plan                                *)
(***************************************************************************)
\* the ids of the modules behind the lowerdirs of an op, in their order
LayerIdsOf(op) ==
    [i \in DOMAIN op.lowerdirs |-> Unwrap(extract_id(op.lowerdirs[i]))]

\* the lowerdirs of every op follow the module list: descending id
LowerdirsInModuleOrder ==
    \A op \in Range(plan.overlay_ops) :
        \A i, j \in DOMAIN op.lowerdirs :
            i < j => LayerIdsOf(op)[i] > LayerIdsOf(op)[j]

\* C26 as stated: planner::generate is deterministic: two invocations with
\* the same configuration, module list and file trees produce the same
\* MountPlan, including the order of overlay_ops, the order of lowerdirs
\* within each op (module iteration order, descending id) and the order of
\* magic_module_paths.
C26_GenerateDeterministic ==
    Planned =>
        /\ generate(daemon_config, host, module_list, modules, storage) = {plan}
        /\ LowerdirsInModuleOrder

(***************************************************************************)
(* SpecCounter: engage and disengage from any content of the counter file. *)
(***************************************************************************)
\* what the counter file can hold before the first call: decimal numbers,
\* a number with whitespace around it, and texts that parse::<u8> rejects
CounterTexts ==
    {FormatU8(n) : n \in {0, 1, 2, RatoonThreshold, U8Max - 1, U8Max}}
        \cup {<<WS, 2, WS>>, <<>>, <<JUNK>>, FormatU8(U8Max + 1)}

\* the Granary before the first call: empty, one damaged file, or one silo
CounterGranaries ==
    DamagedGranaries
        \cup {[f \in TimePoints |->
                 IF f = 0 THEN Some(ToJson(MkSilo(0, "auto", RatoonConfig,
                                                  None, None)))
                 ELSE None]}

\* engage_ratoon_protocol on whatever the counter file holds
engage_from_any ==
    /\ last.streak < MaxStreak
    /\ Engage

CounterInit ==
    /\ counter_file \in {None} \cup {Some(t) : t \in CounterTexts}
    /\ granary \in CounterGranaries
    /\ config_file = None
    /\ state_file = None
    /\ last = NoOp
    /\ RunOff
    /\ NoThreads
    /\ call = NoCall
    /\ ret = None

CounterNext ==
    \/ engage_from_any
    \/ disengage_ratoon_protocol

SpecCounter == CounterInit /\ [][CounterNext]_vars

\* C27 as stated: after any sequence of engage and disengage calls, from any
\* content of the counter file, whenever engage_ratoon_protocol returns the
\* counter file is absent or holds a value below 3, and the increment never
\* overflows or panics.
C27_CounterBelowThreshold ==
    /\ last.op # "engage_panic"
    /\ last.op = "engage" =>
        /\ last.count >= 1
        /\ \/ counter_file = None
           \/ /\ IsSome(ParseU8(Trim(Unwrap(counter_file))))
              /\ ReadCounter(counter_file) < RatoonThreshold

\* ------------------------------------------------------------------
\* execute: the overlay ops of Phase 3 (C28, C29, C30)
\* ------------------------------------------------------------------

\* no two ops of a list have the same partition_name
UniqueNames(ops) ==
    \A i, j \in DOMAIN ops :
        ops[i].partition_name = ops[j].partition_name => i = j

\* C28: the overlay ops the planner generates, and the list Phase 2 hands to
\* the parallel mounts of Phase 3, never hold two ops with the same
\* partition_name, whatever hymo fallback items Phase 2 merged or added.
C28_UniquePartitionNames ==
    /\ UniqueNames(plan.overlay_ops)
    /\ UniqueNames(exec.merged_overlay_ops)

\* Phase 3 ran on a list in which Phase 2 merged a fallback item into a
\* planned op and added a new op for another partition
C28_Witness ==
    /\ pc \in {"phase4", "post", "done"}
    /\ \E part \in Partitions : PlannedOps(part) # {} /\ ItemsOf(part) # <<>>
    /\ \E part \in Partitions :
          /\ ItemsOf(part) # <<>>
          /\ PlannedOps(part) = {}
          /\ MergedOps(part) # {}

\* C29: when execute has returned and the magic mount of Phase 4 did not
\* fail, every module id of the plan's overlay_module_ids, hymo_module_ids
\* and magic_module_ids is in one of the three returned sets, whichever
\* hymo injections and overlay mounts failed.
C29_NoModuleLost ==
    (IsSome(exec_result) /\ env.phase4 # "mount_err") =>
        PlanIds \subseteq (OverlayIds \cup HymoIds \cup MagicIds)

\* execute returned without a magic mount failure after a hymo injection
\* failed, the overlay mount its item was routed to failed as well, and the
\* module is reported as magic-mounted
C29_Witness ==
    /\ IsSome(exec_result)
    /\ env.phase4 = "ok"
    /\ env.hymo_available
    /\ \E op \in env.inject_failed \cap Range(plan.hymo_ops) :
          /\ op.module_id \in MagicIds
          /\ \E failed \in FailedOps :
                PendingOverlayItem(op).source \in Range(failed.lowerdirs)

\* the overlay ops whose mount succeeded in Phase 3
MountedOps == Range(exec.merged_overlay_ops) \ FailedOps

\* C30 as stated: once execute has returned, a module id is in the returned
\* overlay_module_ids exactly when one of the module's partition directories
\* is a lowerdir of an overlay op whose mount succeeded in Phase 3.
C30_OverlayIdsAreMounted ==
    IsSome(exec_result) =>
        \A id \in PlanIds \cup OverlayIds :
            id \in OverlayIds <=> \E op \in MountedOps : id \in LayerIds(op)

====
